---- MODULE Spec2Model ----
(***************************************************************************)
(* Real-time conversational audio pipeline of VBAIgame:                    *)
(*   src/app.py        class DialogueSystem (the live definition, l.560)   *)
(*   src/audio_util.py class AudioPlayerAsync                              *)
(*                                                                         *)
(* Three execution contexts are modelled:                                  *)
(*   - the pygame input thread  (start_conversation, handle_input),        *)
(*   - the asyncio loop thread  (initialize_realtime, record_mic_audio,    *)
(*     send_message, cancel_ongoing_response; coroutines interleave only   *)
(*     at their await points),                                             *)
(*   - the sounddevice callback thread (AudioPlayerAsync.callback).        *)
(*                                                                         *)
(* Specifications:                                                         *)
(*   Spec        a started conversation: the whole DialogueSystem with     *)
(*               its audio player                                          *)
(*   SpecBoot    from construction to the first connections                *)
(*   SpecPlayer  AudioPlayerAsync alone, at sample level                   *)
(***************************************************************************)
EXTENDS Integers, Sequences, FiniteSets, TLC

VARIABLES
    \* ---- DialogueSystem fields (src/app.py:561-594)
    active, input_active, speech_mode, realtime_conn, realtime_initialized,
    is_npc_responding, speech_active, last_audio_item_id, acc_items,
    npc_message, conversation_history,
    \* ---- AudioPlayerAsync fields (src/audio_util.py:48-59)
    queue, playing, stream_on, frame_count,
    \* ---- coroutines living on self.loop
    init,       \* initialize_realtime tasks
    mic,        \* record_mic_audio tasks
    jobs,       \* one-shot coroutines handed over by run_coroutine_threadsafe
    running,    \* the coroutine that holds the loop thread between two awaits
    \* ---- the input thread, and the position of the player: the caller's
    \* list (Player.pos) and the copy start_conversation keeps of it
    ui, player_pos, initial_player_pos,
    \* ---- the remote side: what each connection has been sent so far, and
    \* the events it is going to send, in order (empty: whatever it likes)
    heard, script,
    \* ---- the threads inside AudioPlayerAsync, where they are followed
    \* statement by statement (SpecRace)
    thr,
    \* ---- observation: what the last step did, and the budgets spent
    ev, nev, nui, nfault,
    \* ---- SpecPlayer only: samples enqueued, blocks emitted, undisturbed flag
    p_in, p_out, p_clean

vars == << active, input_active, speech_mode, realtime_conn, realtime_initialized,
           is_npc_responding, speech_active, last_audio_item_id, acc_items,
           npc_message, conversation_history,
           queue, playing, stream_on, frame_count,
           init, mic, jobs, running, ui, player_pos, initial_player_pos,
           heard, script, thr,
           ev, nev, nui, nfault,
           p_in, p_out, p_clean >>

dsVars     == << active, input_active, speech_mode, realtime_conn, realtime_initialized,
                 is_npc_responding, speech_active, last_audio_item_id, acc_items,
                 npc_message, conversation_history >>
playerVars == << queue, playing, stream_on, frame_count >>
budgetVars == << nev, nui, nfault >>
loopVars   == << init, mic, jobs, running >>
ghostVars  == << p_in, p_out, p_clean >>
posVars    == << player_pos, initial_player_pos >>

----------------------------------------------------------------------------
\* Bounds of the model

\* initialize_realtime / record_mic_audio pairs that may be launched
MaxTasks == 2
\* inbound events delivered over all connections
MaxEvents == 2
\* keys handled by handle_input (F5, Shift+Q, RETURN)
MaxUI == 2
\* one-shot coroutines pending on the loop at a time
MaxJobs == 2
\* failures the environment may inject (a drop, a send that raises, a device
\* error, a failing fallback request); failures the program brings upon
\* itself (a send through None or through a closed connection) are not counted
MaxFaults == 1
\* samples asked for by one output callback in Spec (blocksize, scaled down)
BlockSize == 2
\* SpecPlayer: add_data calls, callback calls, largest block asked for
MaxFrames == 2
MaxPulls == 3
MaxBlock == 2

----------------------------------------------------------------------------
\* Values

None == "None"

\* self.realtime_conn = None; connections are numbered from 10
NoConn == 0

Min(a, b) == IF a < b THEN a ELSE b

Take(s, n) == SubSeq(s, 1, Min(n, Len(s)))
Drop(s, n) == SubSeq(s, Min(n, Len(s)) + 1, Len(s))

RECURSIVE Flatten(_)
Flatten(ss) == IF ss = << >> THEN << >> ELSE Head(ss) \o Flatten(Tail(ss))

Zeros(n) == [i \in 1..n |-> 0]

\* ---- the audio wire format: base64 text -> bytes -> int16 samples
\* A base64 text is a sequence of sextets 0..63, 64 standing for the pad '='.

RECURSIVE b64decode(_)
b64decode(s) ==
    IF Len(s) < 4 THEN << >>
    ELSE LET a == s[1]
             b == s[2]
             c == s[3]
             d == s[4]
             rest == SubSeq(s, 5, Len(s))
         IN  IF c = 64
             THEN << (a * 64 + b) \div 16 >> \o b64decode(rest)
             ELSE IF d = 64
             THEN LET v == (a * 4096 + b * 64 + c) \div 4
                  IN  << v \div 256, v % 256 >> \o b64decode(rest)
             ELSE LET v == a * 262144 + b * 4096 + c * 64 + d
                  IN  << v \div 65536, (v \div 256) % 256, v % 256 >> \o b64decode(rest)

\* np.frombuffer(data, dtype=np.int16): little-endian pairs, two's complement
RECURSIVE frombuffer_int16(_)
frombuffer_int16(bytes) ==
    IF Len(bytes) < 2 THEN << >>
    ELSE LET u == bytes[1] + 256 * bytes[2]
         IN  << IF u >= 32768 THEN u - 65536 ELSE u >>
             \o frombuffer_int16(SubSeq(bytes, 3, Len(bytes)))

\* The deltas the remote may send, as base64 text:
\*   "AQACAA==" = samples 1, 2      "AwA=" = sample 3
\*   "//8="     = sample -1         ""     = no sample
Delta_1_2 == << 0, 16, 0, 2, 0, 0, 64, 64 >>
Delta_3   == << 0, 48, 0, 64 >>
Delta_m1  == << 63, 63, 60, 64 >>
Delta_nil == << >>

Items == { "r1", "r2" }

\* Every item has its own audio, so the samples in the queue tell the item
\* they came from.
DeltasOf(item) == IF item = "r1" THEN { Delta_1_2 } ELSE { Delta_3 }
ItemOfSample(s) == IF s \in { 1, 2 } THEN "r1" ELSE "r2"

\* reset_frame_count (src/audio_util.py:84-86): the counter it leaves
reset_frame_count_keeps(count) == count
reset_frame_count(count) == 0

AllDeltas == { Delta_1_2, Delta_3, Delta_m1, Delta_nil }

----------------------------------------------------------------------------
\* AudioPlayerAsync (src/audio_util.py:42-119)

\* A callback loop that forgets to put the unconsumed rest of a chunk back.
RECURSIVE callback_loop_no_requeue(_, _, _)
callback_loop_no_requeue(data, q, frames) ==
    IF Len(data) < frames /\ Len(q) > 0
    THEN callback_loop_no_requeue(
             data \o Take(Head(q), frames - Len(data)), Tail(q), frames)
    ELSE [data |-> data, queue |-> q]

\* callback, the while loop of lines 69-74: fill `data` up to `frames` samples
RECURSIVE callback_loop(_, _, _)
callback_loop(data, q, frames) ==
    IF Len(data) < frames /\ Len(q) > 0
    THEN LET item == Head(q)
             frames_needed == frames - Len(data)
             popped == Tail(q)
         IN  callback_loop(
                 data \o Take(item, frames_needed),
                 IF Len(item) > frames_needed
                 THEN << Drop(item, frames_needed) >> \o popped
                 ELSE popped,
                 frames)
    ELSE [data |-> data, queue |-> q]

\* callback, lines 65-82: what one call leaves behind and writes to outdata
callback(q, count, frames) ==
    LET r == callback_loop(<< >>, q, frames)
    IN  [ queue       |-> r.queue,
          frame_count |-> count + Len(r.data),
          outdata     |-> IF Len(r.data) < frames
                          THEN r.data \o Zeros(frames - Len(r.data))
                          ELSE r.data ]

\* add_data, lines 99-103 (the chunk appended; start() when not playing)
add_data_queue_front(q, data) == << frombuffer_int16(data) >> \o q
add_data_queue(q, data) == Append(q, frombuffer_int16(data))

QueuedSamples == Flatten(queue)

----------------------------------------------------------------------------
\* Initial state: a DialogueSystem as __init__ leaves it

NoEv == [ kind |-> "none" ]

\* Positions, in tenths of a unit.  Player starts at [0, 0.5, 0]
\* (src/app.py:1210), which is also the default of start_conversation.
\* NoPos is what `if player_pos` takes for no position: None, or an empty list.
DefaultPos == << 0, 5, 0 >>
NoPos      == << >>
Positions  == { << 0, 5, 0 >>, << 3, 5, 0 >>, << 0, 5, -3 >> }

\* start_conversation, line 804: the position kept for the way back
start_position_no_default(pos) == pos
start_position(pos) == IF pos = NoPos THEN DefaultPos ELSE pos

\* the input thread between two commands
Idle == [ pc |-> "idle", role |-> None ]

\* no coroutine is between two awaits
Free == [ k |-> "none", t |-> 0 ]

\* no thread is inside a method of the audio player, its lock is free
ThrIdle ==
    [ lock |-> "free",
      cb   |-> [ pc |-> "idle", data |-> << >>, seen |-> 0, frames |-> 0,
                 raced |-> FALSE ],
      add  |-> [ pc |-> "idle" ],
      ctl  |-> [ pc |-> "idle" ],
      nctl |-> 0 ]

Init ==
    /\ active = FALSE
    /\ input_active = FALSE
    /\ speech_mode = FALSE
    /\ realtime_conn = NoConn
    /\ realtime_initialized = FALSE
    /\ is_npc_responding = FALSE
    /\ speech_active = FALSE
    /\ last_audio_item_id = None
    /\ acc_items = << >>
    /\ npc_message = << >>
    /\ conversation_history = << >>
    /\ queue = << >>
    /\ playing = FALSE
    /\ stream_on = FALSE
    /\ frame_count = 0
    /\ init = << >>
    /\ mic = << >>
    /\ jobs = << >>
    /\ running = Free
    /\ ui = Idle
    /\ player_pos = DefaultPos
    /\ initial_player_pos = NoPos
    /\ heard = {}
    /\ script = << >>
    /\ thr = ThrIdle
    /\ ev = NoEv
    /\ nev = 0
    /\ nui = 0
    /\ nfault = 0
    /\ p_in = << >>
    /\ p_out = << >>
    /\ p_clean = TRUE

----------------------------------------------------------------------------
\* SpecPlayer: AudioPlayerAsync alone.  p_in are the samples enqueued since
\* the last stop, p_out the blocks the callback wrote, p_clean says that no
\* stop or reset happened and no chunk was enqueued after the first pull.

P_AddData ==
    /\ Len(p_in) < MaxFrames
    /\ \E delta \in AllDeltas :
        LET data == b64decode(delta)
        IN  /\ queue' = add_data_queue(queue, data)
            /\ p_in' = Append(p_in, frombuffer_int16(data))
    /\ playing' = TRUE
    /\ stream_on' = TRUE
    /\ p_clean' = (p_clean /\ p_out = << >>)
    /\ UNCHANGED << frame_count, p_out >>
    /\ UNCHANGED << dsVars, loopVars, ui, heard, script, thr, posVars, ev, budgetVars >>

\* the output stream calls back for `frames` samples
P_Callback ==
    /\ stream_on
    /\ Len(p_out) < MaxPulls
    /\ \E frames \in 1..MaxBlock :
        LET r == callback(queue, frame_count, frames)
        IN  /\ queue' = r.queue
            /\ frame_count' = r.frame_count
            /\ p_out' = Append(p_out, [ frames |-> frames, outdata |-> r.outdata ])
    /\ UNCHANGED << playing, stream_on, p_in, p_clean >>
    /\ UNCHANGED << dsVars, loopVars, ui, heard, script, thr, posVars, ev, budgetVars >>

\* stop, lines 110-115
P_Stop ==
    /\ playing' = FALSE
    /\ stream_on' = FALSE
    /\ queue' = << >>
    /\ p_clean' = FALSE
    /\ UNCHANGED << frame_count, p_in, p_out >>
    /\ UNCHANGED << dsVars, loopVars, ui, heard, script, thr, posVars, ev, budgetVars >>

\* reset_frame_count, lines 84-86
P_Reset ==
    /\ frame_count' = 0
    /\ p_clean' = FALSE
    /\ UNCHANGED << queue, playing, stream_on, p_in, p_out >>
    /\ UNCHANGED << dsVars, loopVars, ui, heard, script, thr, posVars, ev, budgetVars >>

NextPlayer == P_AddData \/ P_Callback \/ P_Stop \/ P_Reset

SpecPlayer == Init /\ [][NextPlayer]_vars

\* ---- C6
Enqueued == Flatten(p_in)
Emitted  == Flatten([ i \in 1..Len(p_out) |-> p_out[i].outdata ])

\* C6: when chunks totalling S samples are enqueued and then pulled with no
\* further enqueue, stop or reset, the emitted blocks carry exactly those S
\* samples in FIFO order before any padding, all padding is zero, and every
\* block has exactly the length asked for.
C6_PullFifoThenSilence ==
    p_clean =>
        /\ \A i \in 1..Len(Emitted) :
               Emitted[i] = IF i <= Len(Enqueued) THEN Enqueued[i] ELSE 0
        /\ \A k \in 1..Len(p_out) : Len(p_out[k].outdata) = p_out[k].frames
        /\ QueuedSamples = Drop(Enqueued, Len(Emitted))

\* a chunk split across two blocks, then an underrun padded with silence
C6_Witness ==
    /\ p_clean
    /\ p_in = << << 3 >>, << 1, 2 >> >>
    /\ p_out = << [ frames |-> 2, outdata |-> << 3, 1 >> ],
                  [ frames |-> 2, outdata |-> << 2, 0 >> ] >>

----------------------------------------------------------------------------
\* Spec: the DialogueSystem.  Values of its world.

\* for attempt in range(max_attempts)
max_attempts == 3
\* await asyncio.sleep(2)
retry_delay == 2

\* The connection object opened by task t in its attempt a (a = 0, 1, 2).
ConnOf(t, a) == 10 * t + a

Words   == { "Hello " }
Texts   == { << "hi" >> }
Roles   == { "HR", "CEO" }
Reply   == << "reply" >>
Apology == << "I apologize, but I'm having trouble connecting to our systems right now." >>
SpeechPlaceholder == << "[Speech input started]" >>
system_prompt(npc_role)   == << "system prompt", npc_role >>
initial_message(npc_role) == << "Hello there, I am", npc_role >>

Event(t, i, d, e) == [ type |-> t, item_id |-> i, delta |-> d, error |-> e ]

PlainEvents ==
    { Event(t, None, << >>, None) :
        t \in { "session.created", "session.updated",
                "input_audio_buffer.speech_started",
                "input_audio_buffer.speech_done",
                "input_audio_buffer.commit.done",
                "response.done", "unhandled" } }
ErrorEvents ==
    { Event("error", None, << >>, e) : e \in { "response_cancel_not_active", "other" } }
AudioDeltaEvents ==
    UNION { { Event("response.audio.delta", i, d, None) : d \in DeltasOf(i) } : i \in Items }
TranscriptEvents ==
    { Event("response.audio_transcript.delta", "r1", << w >>, None) : w \in Words }
    \cup { Event("response.audio_transcript.done", "r1", << >>, None) }
Events == PlainEvents \cup ErrorEvents \cup AudioDeltaEvents \cup TranscriptEvents

NoEvent == Event(None, None, << >>, None)

\* the types whose branch of handle_realtime_event only prints
LogOnlyTypes == { "session.created", "session.updated",
                  "input_audio_buffer.commit.done", "unhandled" }

\* acc_items.get(item_id, "")
acc_get(acc, item) == IF item \in DOMAIN acc THEN acc[item] ELSE << >>
acc_put_shared(acc, item, text) == [ i \in DOMAIN acc \cup { item } |-> text ]
acc_put(acc, item, text) ==
    [ i \in DOMAIN acc \cup { item } |-> IF i = item THEN text ELSE acc[i] ]
acc_empty == [ i \in {} |-> << >> ]

\* a turn whose role is lost
Turn_as_system(role, content) == [ role |-> "system", content |-> content ]
Turn(role, content) == [ role |-> role, content |-> content ]

LoopFree == running = Free

\* ---- the spec's two enumerations, read off the fields
\* SpeechState: is_npc_responding is the agent-responding flag, speech_active
\* the user-speaking flag.
SpeechState ==
    IF is_npc_responding THEN "AgentResponding"
    ELSE IF speech_active THEN "UserSpeaking"
    ELSE "Idle"

\* ConnectionState: no reference is Disconnected; a reference whose session
\* configuration has not been sent is Connecting; both is Active.
ConnectionState ==
    IF realtime_conn = NoConn THEN "Disconnected"
    ELSE IF realtime_initialized THEN "Active"
    ELSE "Connecting"

\* ---- connections.  A connection is open from the moment `async with
\* connect()` has entered until that block is left.  The input thread's
\* realtime_conn.close() calls the coroutine function
\* AsyncRealtimeConnection.close without awaiting it, which closes nothing.
HoldsConn(pc) == pc \in { "update", "stream", "h_add", "h_cancel", "h_commit", "h_create" }
ConnOpen(c) ==
    \E t \in 1..Len(init) : HoldsConn(init[t].pc) /\ ConnOf(t, init[t].attempt) = c

\* ---- AudioPlayerAsync, as the DialogueSystem uses it
\* stop(), src/audio_util.py:110-115: the queue it leaves
stop_queue(q) == << >>

PlayerStop ==
    /\ playing' = FALSE
    /\ stream_on' = FALSE
    /\ queue' = stop_queue(queue)

\* ---- observations
\* a command handed to connection c; `state` is the ConnectionState and `mode`
\* the speech mode at that moment
Sent(cmd, c, who) ==
    [ kind |-> "send", cmd |-> cmd, conn |-> c,
      state |-> ConnectionState, mode |-> speech_mode ]

\* the remote has been sent a command of this kind on connection c
Hears(c, what) == heard' = heard \cup { << c, what >> }

\* an environment failure is injected while the budget lasts; `forced` marks a
\* failure the program brings upon itself
Raises(forced) ==
    /\ forced \/ nfault < MaxFaults
    /\ nfault' = IF forced THEN nfault ELSE nfault + 1

\* sending through reference c fails for sure: c is None or is closed
Unusable(c) == c = NoConn \/ ~ConnOpen(c)

\* ---- initialize_realtime (src/app.py:600-650)
\* `slept` is the time the task waited between its previous attempt and the
\* current one, in seconds (0 for the first attempt)
NewInit == [ pc |-> "new", attempt |-> 0, cur |-> NoEvent, slept |-> 0 ]
\* `stream` is the worker's sd.InputStream: "none" until lines 713-714 have
\* been seen to run, then "open", and "closed" once stopped and closed
NewMic  == [ pc |-> "poll", stream |-> "none" ]

\* line 644: is another attempt left after attempt number `attempt` failed
retry_off_by_one(attempt) == attempt < max_attempts
retry_left(attempt) == attempt < max_attempts - 1

\* the except clause, lines 640-650
InitExcept(t, dropped) ==
    /\ realtime_conn' = NoConn
    /\ realtime_initialized' = FALSE
    /\ IF retry_left(init[t].attempt)
       THEN /\ init' = [ init EXCEPT ![t].pc = "sleep", ![t].cur = NoEvent ]
            /\ speech_mode' = speech_mode
            /\ ev' = [ kind |-> "attempt_failed", task |-> t, final |-> FALSE,
                       dropped |-> dropped ]
       ELSE /\ init' = [ init EXCEPT ![t].pc = "done", ![t].cur = NoEvent ]
            /\ speech_mode' = FALSE
            /\ ev' = [ kind |-> "attempt_failed", task |-> t, final |-> TRUE,
                       dropped |-> dropped ]

\* the next round of `for attempt in range(max_attempts)`: a new connect, or
\* the end of the loop
InitNextAttempt(t, seconds) ==
    IF init[t].attempt + 1 < max_attempts
    THEN init' = [ init EXCEPT ![t].pc = "connect", ![t].attempt = @ + 1,
                               ![t].cur = NoEvent, ![t].slept = seconds ]
    ELSE init' = [ init EXCEPT ![t].pc = "done", ![t].cur = NoEvent ]

\* lines 601-621: the coroutine starts and awaits its first connect
IR_Begin(t) ==
    /\ LoopFree
    /\ init[t].pc = "new"
    /\ realtime_initialized' = FALSE
    /\ init' = [ init EXCEPT ![t].pc = "connect" ]
    /\ ev' = NoEv
    /\ UNCHANGED << active, input_active, speech_mode, realtime_conn,
                    is_npc_responding, speech_active, last_audio_item_id,
                    acc_items, npc_message, conversation_history >>
    /\ UNCHANGED << playerVars, mic, jobs, running, ui, budgetVars,
                    ghostVars, heard, script, thr, posVars >>

\* lines 621-634: connect() returns a connection; session.update is awaited
IR_Connected(t) ==
    /\ LoopFree
    /\ init[t].pc = "connect"
    /\ realtime_conn' = ConnOf(t, init[t].attempt)
    /\ init' = [ init EXCEPT ![t].pc = "update" ]
    /\ ev' = NoEv
    /\ UNCHANGED << active, input_active, speech_mode, realtime_initialized,
                    is_npc_responding, speech_active, last_audio_item_id,
                    acc_items, npc_message, conversation_history >>
    /\ UNCHANGED << playerVars, mic, jobs, running, ui, budgetVars,
                    ghostVars, heard, script, thr, posVars >>

\* line 621 raises: the remote is unreachable, refuses, or speaks another protocol
IR_ConnectFails(t) ==
    /\ LoopFree
    /\ init[t].pc = "connect"
    /\ InitExcept(t, FALSE)
    /\ UNCHANGED << active, input_active, is_npc_responding, speech_active,
                    last_audio_item_id, acc_items, npc_message,
                    conversation_history >>
    /\ UNCHANGED << playerVars, mic, jobs, running, ui, budgetVars,
                    ghostVars, heard, script, thr, posVars >>

\* lines 635-638: session.update returned; the event stream is consumed
IR_Configured(t) ==
    /\ LoopFree
    /\ init[t].pc = "update"
    /\ realtime_initialized' = TRUE
    /\ init' = [ init EXCEPT ![t].pc = "stream" ]
    /\ ev' = NoEv
    /\ UNCHANGED << active, input_active, speech_mode, realtime_conn,
                    is_npc_responding, speech_active, last_audio_item_id,
                    acc_items, npc_message, conversation_history >>
    /\ UNCHANGED << playerVars, mic, jobs, running, ui, budgetVars,
                    ghostVars, heard, script, thr, posVars >>

\* session.update raises, or the stream raises while it is awaited (a drop)
IR_Drop(t) ==
    /\ LoopFree
    /\ init[t].pc \in { "update", "stream" }
    /\ Raises(FALSE)
    /\ InitExcept(t, init[t].pc = "stream")
    /\ UNCHANGED << active, input_active, is_npc_responding, speech_active,
                    last_audio_item_id, acc_items, npc_message,
                    conversation_history >>
    /\ UNCHANGED << playerVars, mic, jobs, running, ui, nev, nui,
                    ghostVars, heard, script, thr, posVars >>

\* `async for event in conn` ends without an exception (the connection was
\* closed normally): the for loop goes on to its next attempt
IR_StreamEnds(t) ==
    /\ LoopFree
    /\ init[t].pc = "stream"
    /\ Raises(FALSE)
    /\ InitNextAttempt(t, 0)
    /\ ev' = [ kind |-> "stream_ended", task |-> t ]
    /\ UNCHANGED << dsVars, playerVars, mic, jobs, running, ui, nev, nui,
                    ghostVars, heard, script, thr, posVars >>

\* lines 645-646: asyncio.sleep(2) is over
IR_Retry(t) ==
    /\ LoopFree
    /\ init[t].pc = "sleep"
    /\ InitNextAttempt(t, retry_delay)
    /\ ev' = NoEv
    /\ UNCHANGED << dsVars, playerVars, mic, jobs, running, ui, budgetVars,
                    ghostVars, heard, script, thr, posVars >>

----------------------------------------------------------------------------
\* handle_realtime_event (src/app.py:652-708), run by `async for event in
\* conn` of task t for one event e.  A handler that awaits a send gives the
\* loop to the other coroutines until the send returns.

\* The remote speaks when spoken to: it detects speech only in audio it was
\* sent, it answers only audio or a response.create, and it reports
\* response_cancel_not_active only to a response.cancel.
Plausible(c, e) ==
    CASE e.type \in { "input_audio_buffer.speech_started",
                      "input_audio_buffer.speech_done",
                      "input_audio_buffer.commit.done" } ->
             << c, "audio" >> \in heard
      [] e.type \in { "response.audio.delta", "response.audio_transcript.delta",
                      "response.audio_transcript.done", "response.done" } ->
             << c, "audio" >> \in heard \/ << c, "create" >> \in heard
      [] e.type = "error" /\ e.error = "response_cancel_not_active" ->
             << c, "cancel" >> \in heard
      [] OTHER -> TRUE

\* task t is waiting in `async for event in conn` and event e may come: any
\* event while the budget lasts, or the next one of the script
Deliverable(t, e) ==
    /\ LoopFree
    /\ init[t].pc = "stream"
    /\ IF script = << >>
       THEN nev < MaxEvents
       ELSE nev < Len(script) /\ e = script[nev + 1]
    /\ Plausible(ConnOf(t, init[t].attempt), e)

\* the handler of task t has finished with event e: was it a barge-in, what
\* became of its cancel ("none", "ok", "raise"), did line 706 catch something.
\* Only barge-ins, error events and caught exceptions are observed.
Handled(t, e, barge, cancel, exc) ==
    IF barge \/ exc \/ e.type = "error"
    THEN [ kind |-> "handled", task |-> t, type |-> e.type, error |-> e.error,
           barge |-> barge, cancel |-> cancel, exc |-> exc ]
    ELSE NoEv

\* cancel_ongoing_response, lines 789-791: an exception of the cancel send is
\* caught and the local reset of lines 792-797 still runs
cancel_error_escapes == FALSE
cancel_error_swallowed == TRUE

\* cancel_ongoing_response, lines 792-797
CancelReset ==
    /\ PlayerStop
    /\ frame_count' = reset_frame_count(frame_count)
    /\ npc_message' = << >>
    /\ acc_items' = acc_empty
    /\ last_audio_item_id' = None
    /\ is_npc_responding' = FALSE

\* handle_realtime_event's except clause, lines 706-708
HandlerExcept_keeps_flag == UNCHANGED is_npc_responding
HandlerExcept == is_npc_responding' = FALSE

\* session.created, session.updated, input_audio_buffer.commit.done, any
\* unhandled type, and the error of the response_cancel_not_active class:
\* logged only
H_LogOnly(t, e) ==
    /\ Deliverable(t, e)
    /\ \/ e.type \in LogOnlyTypes
       \/ e.type = "error" /\ e.error = "response_cancel_not_active"
    /\ nev' = nev + 1
    /\ ev' = Handled(t, e, FALSE, "none", FALSE)
    /\ UNCHANGED << dsVars, playerVars, loopVars, ui, nui, nfault,
                    ghostVars, heard, script, thr, posVars >>

\* response.audio.delta, lines 659-665: flag, item switch, decode
H_AudioDelta(t, e) ==
    /\ Deliverable(t, e)
    /\ e.type = "response.audio.delta"
    /\ nev' = nev + 1
    /\ is_npc_responding' = TRUE
    /\ IF e.item_id # last_audio_item_id
       THEN /\ frame_count' = reset_frame_count(frame_count)
            /\ last_audio_item_id' = e.item_id
       ELSE UNCHANGED << frame_count, last_audio_item_id >>
    /\ init' = [ init EXCEPT ![t].pc = "h_add", ![t].cur = e ]
    /\ running' = [ k |-> "init", t |-> t ]
    /\ ev' = [ kind |-> "adopt", item |-> e.item_id,
               switched |-> e.item_id # last_audio_item_id,
               previous |-> last_audio_item_id ]
    /\ UNCHANGED << active, input_active, speech_mode, realtime_conn,
                    realtime_initialized, speech_active, acc_items, npc_message,
                    conversation_history >>
    /\ UNCHANGED << queue, playing, stream_on, mic, jobs, ui, nui, nfault,
                    ghostVars, heard, script, thr, posVars >>

\* response.audio.delta, line 666: audio_player.add_data(bytes_data)
H_AudioDelta_Add(t) ==
    /\ running = [ k |-> "init", t |-> t ]
    /\ init[t].pc = "h_add"
    /\ queue' = add_data_queue(queue, b64decode(init[t].cur.delta))
    /\ playing' = TRUE
    /\ stream_on' = TRUE
    /\ init' = [ init EXCEPT ![t].pc = "stream", ![t].cur = NoEvent ]
    /\ running' = Free
    /\ ev' = [ kind |-> "enqueued", item |-> init[t].cur.item_id,
               before |-> queue ]
    /\ UNCHANGED << dsVars, frame_count, mic, jobs, ui, budgetVars,
                    ghostVars, heard, script, thr, posVars >>

\* response.audio_transcript.delta, lines 667-670
H_TranscriptDelta(t, e) ==
    /\ Deliverable(t, e)
    /\ e.type = "response.audio_transcript.delta"
    /\ nev' = nev + 1
    /\ acc_items' = acc_put(acc_items, e.item_id, acc_get(acc_items, e.item_id) \o e.delta)
    /\ ev' = Handled(t, e, FALSE, "none", FALSE)
    /\ UNCHANGED << active, input_active, speech_mode, realtime_conn,
                    realtime_initialized, is_npc_responding, speech_active,
                    last_audio_item_id, npc_message, conversation_history >>
    /\ UNCHANGED << playerVars, loopVars, ui, nui, nfault, ghostVars, heard, script,
                    thr, posVars >>

\* response.audio_transcript.done, lines 671-675
H_TranscriptDone(t, e) ==
    /\ Deliverable(t, e)
    /\ e.type = "response.audio_transcript.done"
    /\ nev' = nev + 1
    /\ npc_message' = acc_get(acc_items, e.item_id)
    /\ conversation_history' =
           Append(conversation_history, Turn("assistant", acc_get(acc_items, e.item_id)))
    /\ is_npc_responding' = FALSE
    /\ ev' = Handled(t, e, FALSE, "none", FALSE)
    /\ UNCHANGED << active, input_active, speech_mode, realtime_conn,
                    realtime_initialized, speech_active, last_audio_item_id,
                    acc_items >>
    /\ UNCHANGED << playerVars, loopVars, ui, nui, nfault, ghostVars, heard, script,
                    thr, posVars >>

\* input_audio_buffer.speech_started, lines 682-685: the handler's own reset
SpeechStartedTail ==
    /\ PlayerStop
    /\ npc_message' = << >>
    /\ acc_items' = acc_empty
    /\ conversation_history' =
           Append(conversation_history, Turn("user", SpeechPlaceholder))

\* input_audio_buffer.speech_started while nothing is being answered
H_SpeechStarted(t, e) ==
    /\ Deliverable(t, e)
    /\ e.type = "input_audio_buffer.speech_started"
    /\ ~is_npc_responding
    /\ nev' = nev + 1
    /\ speech_active' = TRUE
    /\ SpeechStartedTail
    /\ ev' = Handled(t, e, FALSE, "none", FALSE)
    /\ UNCHANGED << active, input_active, speech_mode, realtime_conn,
                    realtime_initialized, is_npc_responding, last_audio_item_id >>
    /\ UNCHANGED << frame_count, loopVars, ui, nui, nfault, ghostVars, heard, script,
                    thr, posVars >>

\* input_audio_buffer.speech_started while the agent responds (barge-in),
\* lines 676-681 and 785-788: the cancel is sent and awaited
H_BargeIn_Send(t, e) ==
    /\ Deliverable(t, e)
    /\ e.type = "input_audio_buffer.speech_started"
    /\ is_npc_responding
    /\ realtime_conn # NoConn /\ speech_mode
    /\ ConnOpen(realtime_conn)
    /\ nev' = nev + 1
    /\ speech_active' = TRUE
    /\ init' = [ init EXCEPT ![t].pc = "h_cancel", ![t].cur = e ]
    /\ ev' = Sent("response.cancel", realtime_conn, "handler")
    /\ Hears(realtime_conn, "cancel")
    /\ UNCHANGED << active, input_active, speech_mode, realtime_conn,
                    realtime_initialized, is_npc_responding, last_audio_item_id,
                    acc_items, npc_message, conversation_history >>
    /\ UNCHANGED << playerVars, mic, jobs, running, ui, nui, nfault, ghostVars, script,
                    thr, posVars >>

\* the awaited cancel returned: lines 792-798, then 682-685
H_BargeIn_Resume(t) ==
    /\ LoopFree
    /\ init[t].pc = "h_cancel"
    /\ CancelReset
    /\ conversation_history' =
           Append(conversation_history, Turn("user", SpeechPlaceholder))
    /\ init' = [ init EXCEPT ![t].pc = "stream", ![t].cur = NoEvent ]
    /\ ev' = Handled(t, init[t].cur, TRUE, "ok", FALSE)
    /\ UNCHANGED << active, input_active, speech_mode, realtime_conn,
                    realtime_initialized, speech_active >>
    /\ UNCHANGED << mic, jobs, running, ui, budgetVars, ghostVars, heard, script, thr,
                    posVars >>

\* barge-in whose cancel is not sent (no reference, or speech mode off) or
\* whose send raises: no await, the handler runs to its end
H_BargeIn_Local(t, e) ==
    /\ Deliverable(t, e)
    /\ e.type = "input_audio_buffer.speech_started"
    /\ is_npc_responding
    /\ nev' = nev + 1
    /\ speech_active' = TRUE
    /\ \/ /\ ~(realtime_conn # NoConn /\ speech_mode)
          /\ CancelReset
          /\ conversation_history' =
                 Append(conversation_history, Turn("user", SpeechPlaceholder))
          /\ ev' = Handled(t, e, TRUE, "none", FALSE)
          /\ UNCHANGED nfault
       \/ /\ realtime_conn # NoConn /\ speech_mode
          /\ Raises(Unusable(realtime_conn))
          /\ IF cancel_error_swallowed
             THEN /\ CancelReset
                  /\ conversation_history' =
                         Append(conversation_history, Turn("user", SpeechPlaceholder))
                  /\ ev' = Handled(t, e, TRUE, "raise", FALSE)
             ELSE \* the exception reaches the handler's own except, line 706
                  /\ HandlerExcept
                  /\ ev' = Handled(t, e, TRUE, "raise", TRUE)
                  /\ UNCHANGED << playerVars, npc_message, acc_items,
                                  last_audio_item_id, conversation_history >>
    /\ UNCHANGED << active, input_active, speech_mode, realtime_conn,
                    realtime_initialized >>
    /\ UNCHANGED << loopVars, ui, nui, ghostVars, heard, script, thr, posVars >>

\* input_audio_buffer.speech_done, lines 686-689: commit through
\* self.realtime_conn, without a look at the connection
H_SpeechDone(t, e) ==
    /\ Deliverable(t, e)
    /\ e.type = "input_audio_buffer.speech_done"
    /\ nev' = nev + 1
    /\ speech_active' = FALSE
    /\ \/ /\ ~Unusable(realtime_conn)
          /\ init' = [ init EXCEPT ![t].pc = "h_commit", ![t].cur = e ]
          /\ ev' = Sent("input_audio_buffer.commit", realtime_conn, "handler")
          /\ UNCHANGED << is_npc_responding, nfault >>
       \/ \* AttributeError on None, or the send raises: line 706
          /\ Raises(Unusable(realtime_conn))
          /\ HandlerExcept
          /\ ev' = Handled(t, e, FALSE, "none", TRUE)
          /\ UNCHANGED init
    /\ UNCHANGED << active, input_active, speech_mode, realtime_conn,
                    realtime_initialized, last_audio_item_id, acc_items,
                    npc_message, conversation_history >>
    /\ UNCHANGED << playerVars, mic, jobs, running, ui, nui, ghostVars, heard, script,
                    thr, posVars >>

\* line 690: the commit returned, response.create through self.realtime_conn
H_SpeechDone_Create(t) ==
    /\ LoopFree
    /\ init[t].pc = "h_commit"
    /\ \/ /\ ~Unusable(realtime_conn)
          /\ init' = [ init EXCEPT ![t].pc = "h_create" ]
          /\ ev' = Sent("response.create", realtime_conn, "handler")
          /\ Hears(realtime_conn, "create")
          /\ UNCHANGED << is_npc_responding, nfault >>
       \/ /\ Raises(Unusable(realtime_conn))
          /\ HandlerExcept
          /\ init' = [ init EXCEPT ![t].pc = "stream", ![t].cur = NoEvent ]
          /\ ev' = Handled(t, init[t].cur, FALSE, "none", TRUE)
          /\ UNCHANGED heard
    /\ UNCHANGED << active, input_active, speech_mode, realtime_conn,
                    realtime_initialized, speech_active, last_audio_item_id,
                    acc_items, npc_message, conversation_history >>
    /\ UNCHANGED << playerVars, mic, jobs, running, ui, nev, nui, ghostVars, script,
                    thr, posVars >>

\* the response.create returned: the handler is over
H_SpeechDone_End(t) ==
    /\ LoopFree
    /\ init[t].pc = "h_create"
    /\ init' = [ init EXCEPT ![t].pc = "stream", ![t].cur = NoEvent ]
    /\ ev' = Handled(t, init[t].cur, FALSE, "none", FALSE)
    /\ UNCHANGED << dsVars, playerVars, mic, jobs, running, ui, budgetVars,
                    ghostVars, heard, script, thr, posVars >>

\* response.done, lines 693-695
H_ResponseDone(t, e) ==
    /\ Deliverable(t, e)
    /\ e.type = "response.done"
    /\ nev' = nev + 1
    /\ is_npc_responding' = FALSE
    /\ ev' = Handled(t, e, FALSE, "none", FALSE)
    /\ UNCHANGED << active, input_active, speech_mode, realtime_conn,
                    realtime_initialized, speech_active, last_audio_item_id,
                    acc_items, npc_message, conversation_history >>
    /\ UNCHANGED << playerVars, loopVars, ui, nui, nfault, ghostVars, heard, script,
                    thr, posVars >>

\* error of any other class, lines 700-703: the references are dropped; the
\* connection itself stays open and `async for` goes on
H_FatalError(t, e) ==
    /\ Deliverable(t, e)
    /\ e.type = "error" /\ e.error # "response_cancel_not_active"
    /\ nev' = nev + 1
    /\ speech_mode' = FALSE
    /\ realtime_conn' = NoConn
    /\ realtime_initialized' = FALSE
    /\ ev' = Handled(t, e, FALSE, "none", FALSE)
    /\ UNCHANGED << active, input_active, is_npc_responding, speech_active,
                    last_audio_item_id, acc_items, npc_message,
                    conversation_history >>
    /\ UNCHANGED << playerVars, loopVars, ui, nui, nfault, ghostVars, heard, script,
                    thr, posVars >>

----------------------------------------------------------------------------
\* record_mic_audio (src/app.py:710-742), task t.  self.sent_audio_once is
\* written here and read nowhere; it is left out.

\* the finally clause, lines 738-742: a stream that was made is stopped and
\* closed
MicFinally_leaks(stream) == stream
MicFinally(stream) == IF stream = "none" THEN "none" ELSE "closed"

\* the except clause, lines 734-737, and the finally clause after it; `made`
\* says that sd.InputStream(...) had returned when the exception was raised
MicExcept(t, made) ==
    /\ speech_mode' = FALSE
    /\ realtime_initialized' = FALSE
    /\ mic' = [ mic EXCEPT ![t].pc = "done",
                           ![t].stream = MicFinally(IF made THEN "open" ELSE @) ]
    /\ running' = Free
    /\ ev' = [ kind |-> "mic_failed", task |-> t ]

\* the device fails: sd.InputStream, stream.start or stream.read raises
Mic_DeviceError(t) ==
    /\ LoopFree
    /\ mic[t].pc = "poll"
    /\ Raises(FALSE)
    /\ \E made \in BOOLEAN : MicExcept(t, made)
    /\ UNCHANGED << active, input_active, realtime_conn, is_npc_responding,
                    speech_active, last_audio_item_id, acc_items, npc_message,
                    conversation_history >>
    /\ UNCHANGED << playerVars, init, jobs, ui, nev, nui, ghostVars, heard, script,
                    thr, posVars >>

\* line 718: what lets a chunk through
mic_guard(mode, conn, initialized) == mode /\ conn # NoConn /\ initialized

\* lines 711-729: the input stream is open, the guard holds, a full chunk is
\* read and encoded.  (When the guard fails or no chunk is ready, the loop
\* sleeps and comes back here: no step.)
Mic_Poll(t) ==
    /\ LoopFree
    /\ mic[t].pc = "poll"
    /\ mic_guard(speech_mode, realtime_conn, realtime_initialized)
    /\ mic' = [ mic EXCEPT ![t].pc = "send", ![t].stream = "open" ]
    /\ running' = [ k |-> "mic", t |-> t ]
    /\ ev' = NoEv
    /\ UNCHANGED << dsVars, playerVars, init, jobs, ui, budgetVars,
                    ghostVars, heard, script, thr, posVars >>

\* lines 723-726: the read reports an overflow; the chunk is skipped and the
\* loop goes round
Mic_Overflow(t) ==
    /\ LoopFree
    /\ mic[t].pc = "poll"
    /\ mic_guard(speech_mode, realtime_conn, realtime_initialized)
    /\ mic' = [ mic EXCEPT ![t].stream = "open" ]
    /\ ev' = [ kind |-> "overflow", task |-> t ]
    /\ UNCHANGED << dsVars, playerVars, init, jobs, running, ui, budgetVars,
                    ghostVars, heard, script, thr, posVars >>

\* lines 731-733: self.realtime_conn is read again and the chunk appended
Mic_Send(t) ==
    /\ running = [ k |-> "mic", t |-> t ]
    /\ mic[t].pc = "send"
    /\ \/ /\ ~Unusable(realtime_conn)
          /\ mic' = [ mic EXCEPT ![t].pc = "poll" ]
          /\ running' = Free
          /\ ev' = Sent("input_audio_buffer.append", realtime_conn, "mic")
          /\ Hears(realtime_conn, "audio")
          /\ UNCHANGED << speech_mode, realtime_initialized, nfault >>
       \/ \* AttributeError on None, or the send raises
          /\ Raises(Unusable(realtime_conn))
          /\ MicExcept(t, TRUE)
          /\ UNCHANGED heard
    /\ UNCHANGED << active, input_active, realtime_conn, is_npc_responding,
                    speech_active, last_audio_item_id, acc_items, npc_message,
                    conversation_history >>
    /\ UNCHANGED << playerVars, init, jobs, ui, nev, nui, ghostVars, script, thr, posVars >>

----------------------------------------------------------------------------
\* One-shot coroutines: cancel_ongoing_response, send_message and the
\* greeting response.create, submitted with run_coroutine_threadsafe.  They
\* start in the order of their submission.

Job(kind, text, conn) == [ kind |-> kind, pc |-> "new", text |-> text, conn |-> conn ]

Remove(sq, i) == SubSeq(sq, 1, i - 1) \o SubSeq(sq, i + 1, Len(sq))

Startable(i) ==
    /\ LoopFree
    /\ jobs[i].pc = "new"
    /\ \A j \in 1..(i - 1) : jobs[j].pc # "new"

\* line 787
CancelSendable == realtime_conn # NoConn /\ speech_mode

\* cancel_ongoing_response as a coroutine of its own (lines 783-798)
\* line 785 with is_npc_responding false: audio_player.is_playing() is
\* evaluated, AudioPlayerAsync has no such method, the coroutine ends with
\* AttributeError
J_Cancel_Crash(i) ==
    /\ Startable(i)
    /\ jobs[i].kind = "cancel"
    /\ ~is_npc_responding
    /\ jobs' = Remove(jobs, i)
    /\ ev' = NoEv
    /\ UNCHANGED << dsVars, playerVars, init, mic, running, ui, budgetVars,
                    ghostVars, heard, script, thr, posVars >>

\* lines 785-788: the cancel is sent and awaited
J_Cancel_Send(i) ==
    /\ Startable(i)
    /\ jobs[i].kind = "cancel"
    /\ is_npc_responding
    /\ CancelSendable /\ ~Unusable(realtime_conn)
    /\ jobs' = [ jobs EXCEPT ![i].pc = "await_cancel" ]
    /\ ev' = Sent("response.cancel", realtime_conn, "cancel")
    /\ Hears(realtime_conn, "cancel")
    /\ UNCHANGED << dsVars, playerVars, init, mic, running, ui, budgetVars,
                    ghostVars, script, thr, posVars >>

\* lines 792-798: the local reset, after the awaited cancel, or at once when
\* nothing is sent or the send raises
J_Cancel_Local(i) ==
    /\ jobs[i].kind = "cancel"
    /\ \/ /\ Startable(i)
          /\ is_npc_responding
          /\ ~CancelSendable
          /\ CancelReset
          /\ UNCHANGED nfault
       \/ /\ Startable(i)
          /\ is_npc_responding
          /\ CancelSendable
          /\ Raises(Unusable(realtime_conn))
          /\ IF cancel_error_swallowed
             THEN CancelReset
             ELSE UNCHANGED << playerVars, npc_message, acc_items,
                               last_audio_item_id, is_npc_responding >>
       \/ /\ LoopFree
          /\ jobs[i].pc = "await_cancel"
          /\ CancelReset
          /\ UNCHANGED nfault
    /\ jobs' = Remove(jobs, i)
    /\ ev' = NoEv
    /\ UNCHANGED << active, input_active, speech_mode, realtime_conn,
                    realtime_initialized, speech_active, conversation_history >>
    /\ UNCHANGED << init, mic, running, ui, nev, nui, ghostVars, heard, script, thr, posVars >>

\* send_message (lines 744-781).  Its first test, lines 745-747, never holds:
\* a message is submitted only after start_conversation has put the system
\* turn into conversation_history, and nothing shortens that list.
\* the except clause, lines 778-781
SendMessageExcept(i) ==
    /\ npc_message' = Apology
    /\ is_npc_responding' = FALSE
    /\ jobs' = Remove(jobs, i)
    /\ ev' = NoEv

\* lines 792-796 followed by lines 778-781
ResetThenExcept(i) ==
    /\ PlayerStop
    /\ frame_count' = reset_frame_count(frame_count)
    /\ acc_items' = acc_empty
    /\ last_audio_item_id' = None
    /\ SendMessageExcept(i)

\* line 750
realtime_path_any_mode == realtime_conn # NoConn /\ realtime_initialized
realtime_path == speech_mode /\ realtime_conn # NoConn /\ realtime_initialized

SendStartable(i) ==
    /\ Startable(i)
    /\ jobs[i].kind = "send_message"
    /\ conversation_history # << >>

\* lines 750-752: the agent is responding, its cancel is sent and awaited
J_Send_Cancel(i) ==
    /\ SendStartable(i)
    /\ realtime_path /\ is_npc_responding
    /\ ~Unusable(realtime_conn)
    /\ jobs' = [ jobs EXCEPT ![i].pc = "m_cancel" ]
    /\ ev' = Sent("response.cancel", realtime_conn, "send_message")
    /\ Hears(realtime_conn, "cancel")
    /\ UNCHANGED << dsVars, playerVars, init, mic, running, ui, budgetVars,
                    ghostVars, script, thr, posVars >>

\* lines 753-759: conversation.item.create, at once when nothing had to be
\* cancelled, else after the awaited cancel and the local reset
J_Send_Item(i) ==
    /\ jobs[i].kind = "send_message"
    /\ \/ /\ SendStartable(i)
          /\ realtime_path /\ ~is_npc_responding
          /\ UNCHANGED << playerVars, npc_message, acc_items,
                          last_audio_item_id, is_npc_responding >>
       \/ /\ LoopFree
          /\ jobs[i].pc = "m_cancel"
          /\ CancelReset
    /\ ~Unusable(realtime_conn)
    /\ jobs' = [ jobs EXCEPT ![i].pc = "m_item" ]
    /\ ev' = Sent("conversation.item.create", realtime_conn, "send_message")
    /\ UNCHANGED << active, input_active, speech_mode, realtime_conn,
                    realtime_initialized, speech_active, conversation_history >>
    /\ UNCHANGED << init, mic, running, ui, budgetVars, ghostVars, heard, script, thr,
                    posVars >>

\* lines 760-762: response.create
J_Send_Create(i) ==
    /\ LoopFree
    /\ jobs[i].kind = "send_message"
    /\ jobs[i].pc = "m_item"
    /\ ~Unusable(realtime_conn)
    /\ jobs' = [ jobs EXCEPT ![i].pc = "m_create" ]
    /\ ev' = Sent("response.create", realtime_conn, "send_message")
    /\ Hears(realtime_conn, "create")
    /\ UNCHANGED << dsVars, playerVars, init, mic, running, ui, budgetVars,
                    ghostVars, script, thr, posVars >>

\* the response.create returned
J_Send_End(i) ==
    /\ LoopFree
    /\ jobs[i].kind = "send_message"
    /\ jobs[i].pc = "m_create"
    /\ jobs' = Remove(jobs, i)
    /\ ev' = NoEv
    /\ UNCHANGED << dsVars, playerVars, init, mic, running, ui, budgetVars,
                    ghostVars, heard, script, thr, posVars >>

\* a send of the realtime path raises (self.realtime_conn is None or closed
\* by now, or the network fails): lines 778-781.  A cancel that raises is
\* caught in cancel_ongoing_response, the local reset runs, and the next send
\* raises into line 778.
J_Send_Raises(i) ==
    /\ jobs[i].kind = "send_message"
    /\ \/ /\ SendStartable(i)
          /\ realtime_path
          /\ Raises(Unusable(realtime_conn))
          /\ IF is_npc_responding
             THEN ResetThenExcept(i)
             ELSE /\ SendMessageExcept(i)
                  /\ UNCHANGED << playerVars, acc_items, last_audio_item_id >>
       \/ /\ LoopFree
          /\ jobs[i].pc = "m_cancel"
          /\ Raises(Unusable(realtime_conn))
          /\ ResetThenExcept(i)
       \/ /\ LoopFree
          /\ jobs[i].pc = "m_item"
          /\ Raises(Unusable(realtime_conn))
          /\ SendMessageExcept(i)
          /\ UNCHANGED << playerVars, acc_items, last_audio_item_id >>
    /\ UNCHANGED << active, input_active, speech_mode, realtime_conn,
                    realtime_initialized, speech_active, conversation_history >>
    /\ UNCHANGED << init, mic, running, ui, nev, nui, ghostVars, heard, script, thr, posVars >>

\* lines 763-769: the fallback request, messages=self.conversation_history,
\* is made and awaited
J_Send_Fallback(i) ==
    /\ SendStartable(i)
    /\ ~realtime_path
    /\ jobs' = [ jobs EXCEPT ![i].pc = "m_chat" ]
    /\ ev' = [ kind |-> "request", messages |-> conversation_history ]
    /\ UNCHANGED << dsVars, playerVars, init, mic, running, ui, budgetVars,
                    ghostVars, heard, script, thr, posVars >>

\* lines 770-777: the reply
J_Send_Reply(i) ==
    /\ LoopFree
    /\ jobs[i].kind = "send_message"
    /\ jobs[i].pc = "m_chat"
    /\ conversation_history' = Append(conversation_history, Turn("assistant", Reply))
    /\ npc_message' = Reply
    /\ is_npc_responding' = TRUE
    /\ jobs' = Remove(jobs, i)
    /\ ev' = NoEv
    /\ UNCHANGED << active, input_active, speech_mode, realtime_conn,
                    realtime_initialized, speech_active, last_audio_item_id,
                    acc_items >>
    /\ UNCHANGED << playerVars, init, mic, running, ui, budgetVars,
                    ghostVars, heard, script, thr, posVars >>

\* a failure clause that drops the turn the user has just typed
J_Send_ChatFails_drops_turn(i) ==
    /\ LoopFree
    /\ jobs[i].kind = "send_message"
    /\ jobs[i].pc = "m_chat"
    /\ Raises(FALSE)
    /\ SendMessageExcept(i)
    /\ conversation_history' =
           SubSeq(conversation_history, 1, Len(conversation_history) - 1)
    /\ UNCHANGED << active, input_active, speech_mode, realtime_conn,
                    realtime_initialized, speech_active, last_audio_item_id,
                    acc_items >>
    /\ UNCHANGED << playerVars, init, mic, running, ui, nev, nui,
                    ghostVars, heard, script, thr, posVars >>

\* the fallback request raises: lines 778-781
J_Send_ChatFails(i) ==
    /\ LoopFree
    /\ jobs[i].kind = "send_message"
    /\ jobs[i].pc = "m_chat"
    /\ Raises(FALSE)
    /\ SendMessageExcept(i)
    /\ UNCHANGED << active, input_active, speech_mode, realtime_conn,
                    realtime_initialized, speech_active, last_audio_item_id,
                    acc_items, conversation_history >>
    /\ UNCHANGED << playerVars, init, mic, running, ui, nev, nui,
                    ghostVars, heard, script, thr, posVars >>

\* the greeting of start_conversation, lines 859-864: response.create on the
\* connection that was referenced when the coroutine object was made
J_Greeting(i) ==
    /\ Startable(i)
    /\ jobs[i].kind = "greeting"
    /\ jobs' = Remove(jobs, i)
    /\ ev' = IF ConnOpen(jobs[i].conn)
             THEN Sent("response.create", jobs[i].conn, "greeting")
             ELSE NoEv
    /\ IF ConnOpen(jobs[i].conn)
       THEN Hears(jobs[i].conn, "create")
       ELSE UNCHANGED heard
    /\ UNCHANGED << dsVars, playerVars, init, mic, running, ui, budgetVars,
                    ghostVars, script, thr, posVars >>

----------------------------------------------------------------------------
\* The input thread: Game3D.run calls start_conversation when no dialogue is
\* active and handle_input for every key while one is.  A command is cut
\* where the loop thread can see it half done.

Launch ==
    /\ init' = Append(init, NewInit)
    /\ mic' = Append(mic, NewMic)

\* start_conversation, lines 801-821 (every call launches a task pair:
\* MaxTasks bounds the calls)
UI_Start(npc_role) ==
    /\ ui = Idle
    /\ ~active
    /\ Len(init) < MaxTasks
    /\ active' = TRUE
    /\ input_active' = TRUE
    /\ PlayerStop
    /\ frame_count' = reset_frame_count(frame_count)
    /\ last_audio_item_id' = None
    /\ acc_items' = acc_empty
    /\ IF realtime_conn # NoConn
       THEN realtime_conn' = NoConn /\ realtime_initialized' = FALSE
       ELSE UNCHANGED << realtime_conn, realtime_initialized >>
    /\ Launch
    /\ ui' = [ pc |-> "start2", role |-> npc_role ]
    /\ \E pos \in { NoPos, player_pos } :
          /\ initial_player_pos' = start_position(pos)
          /\ ev' = [ kind |-> "start", player_pos |-> pos ]
    /\ UNCHANGED << speech_mode, is_npc_responding, speech_active, npc_message,
                    conversation_history, jobs, running, budgetVars, ghostVars,
                    heard, script, thr, player_pos >>

\* start_conversation, lines 823-865
UI_Start_Greet ==
    /\ ui.pc = "start2"
    /\ npc_message' = initial_message(ui.role)
    /\ conversation_history' = << Turn("system", system_prompt(ui.role)) >>
    /\ IF realtime_conn # NoConn /\ realtime_initialized
       THEN /\ Len(jobs) < MaxJobs
            /\ jobs' = Append(jobs, Job("greeting", << >>, realtime_conn))
       ELSE UNCHANGED jobs
    /\ ui' = Idle
    /\ ev' = NoEv
    /\ UNCHANGED << active, input_active, speech_mode, realtime_conn,
                    realtime_initialized, is_npc_responding, speech_active,
                    last_audio_item_id, acc_items >>
    /\ UNCHANGED << playerVars, init, mic, running, budgetVars,
                    ghostVars, heard, script, thr, posVars >>

InputAccepted ==
    /\ ui = Idle
    /\ active /\ input_active
    /\ nui < MaxUI

\* handle_input, Shift+Q, lines 873-876
UI_End ==
    /\ InputAccepted
    /\ nui' = nui + 1
    /\ active' = FALSE
    /\ input_active' = FALSE
    /\ speech_mode' = FALSE
    /\ ui' = [ pc |-> "end2", role |-> None ]
    /\ ev' = NoEv
    /\ UNCHANGED << realtime_conn, realtime_initialized, is_npc_responding,
                    speech_active, last_audio_item_id, acc_items, npc_message,
                    conversation_history >>
    /\ UNCHANGED << playerVars, loopVars, nev, nfault, ghostVars, heard, script, thr,
                    posVars >>

\* handle_input, Shift+Q, lines 877-883: the close, and the command returned
UI_End_Close ==
    /\ ui.pc = "end2"
    /\ IF realtime_conn # NoConn
       THEN /\ Len(jobs) < MaxJobs
            /\ jobs' = Append(jobs, Job("cancel", << >>, NoConn))
            /\ realtime_conn' = NoConn
            /\ realtime_initialized' = FALSE
       ELSE UNCHANGED << jobs, realtime_conn, realtime_initialized >>
    /\ ui' = Idle
    /\ ev' = [ kind |-> "command", position |-> initial_player_pos ]
    /\ UNCHANGED << active, input_active, speech_mode, is_npc_responding,
                    speech_active, last_audio_item_id, acc_items, npc_message,
                    conversation_history >>
    /\ UNCHANGED << playerVars, init, mic, running, budgetVars,
                    ghostVars, heard, script, thr, posVars >>

\* handle_input, F5 turning speech mode on, lines 885-893
UI_SpeechOn ==
    /\ InputAccepted
    /\ ~speech_mode
    /\ nui' = nui + 1
    /\ speech_mode' = TRUE
    /\ IF realtime_conn = NoConn \/ ~realtime_initialized
       THEN Len(init) < MaxTasks /\ Launch
       ELSE UNCHANGED << init, mic >>
    /\ ev' = NoEv
    /\ UNCHANGED << active, input_active, realtime_conn, realtime_initialized,
                    is_npc_responding, speech_active, last_audio_item_id,
                    acc_items, npc_message, conversation_history >>
    /\ UNCHANGED << playerVars, jobs, running, ui, nev, nfault,
                    ghostVars, heard, script, thr, posVars >>

\* handle_input, F5 turning speech mode off, lines 886 and 894-898
UI_SpeechOff ==
    /\ InputAccepted
    /\ speech_mode
    /\ Len(jobs) < MaxJobs
    /\ nui' = nui + 1
    /\ speech_mode' = FALSE
    /\ jobs' = Append(jobs, Job("cancel", << >>, NoConn))
    /\ PlayerStop
    /\ speech_active' = FALSE
    /\ ui' = [ pc |-> "off2", role |-> None ]
    /\ ev' = NoEv
    /\ UNCHANGED << active, input_active, realtime_conn, realtime_initialized,
                    is_npc_responding, last_audio_item_id, acc_items,
                    npc_message, conversation_history >>
    /\ UNCHANGED << frame_count, init, mic, running, nev, nfault,
                    ghostVars, heard, script, thr, posVars >>

\* handle_input, F5 turning speech mode off, lines 899-902
UI_SpeechOff_Close ==
    /\ ui.pc = "off2"
    /\ IF realtime_conn # NoConn
       THEN realtime_conn' = NoConn /\ realtime_initialized' = FALSE
       ELSE UNCHANGED << realtime_conn, realtime_initialized >>
    /\ ui' = Idle
    /\ ev' = NoEv
    /\ UNCHANGED << active, input_active, speech_mode, is_npc_responding,
                    speech_active, last_audio_item_id, acc_items, npc_message,
                    conversation_history >>
    /\ UNCHANGED << playerVars, loopVars, budgetVars, ghostVars, heard, script, thr, posVars >>

\* handle_input, RETURN with text typed, lines 904-911
UI_Submit(text) ==
    /\ InputAccepted
    /\ Len(jobs) + (IF is_npc_responding THEN 2 ELSE 1) <= MaxJobs
    /\ nui' = nui + 1
    /\ conversation_history' = Append(conversation_history, Turn("user", text))
    /\ jobs' = jobs
               \o (IF is_npc_responding THEN << Job("cancel", << >>, NoConn) >> ELSE << >>)
               \o << Job("send_message", text, NoConn) >>
    /\ ev' = NoEv
    /\ UNCHANGED << active, input_active, speech_mode, realtime_conn,
                    realtime_initialized, is_npc_responding, speech_active,
                    last_audio_item_id, acc_items, npc_message >>
    /\ UNCHANGED << playerVars, init, mic, running, ui, nev, nfault,
                    ghostVars, heard, script, thr, posVars >>

----------------------------------------------------------------------------
\* The output stream's thread: one callback for BlockSize samples while the
\* stream is started (a callback on an empty queue writes silence and
\* changes nothing)
Callback ==
    /\ stream_on
    /\ queue # << >>
    /\ LET r == callback(queue, frame_count, BlockSize)
       IN  /\ queue' = r.queue
           /\ frame_count' = r.frame_count
    /\ ev' = NoEv
    /\ UNCHANGED << dsVars, playing, stream_on, loopVars, ui, budgetVars,
                    ghostVars, heard, script, thr, posVars >>

----------------------------------------------------------------------------
\* ---- the steps of the program, by the coroutine or thread that takes them
Tasks  == 1..Len(init)
Mics   == 1..Len(mic)
JobIds == 1..Len(jobs)

\* initialize_realtime: a connect that goes well
Connects ==
    \/ \E t \in Tasks : IR_Begin(t)
    \/ \E t \in Tasks : IR_Connected(t)
    \/ \E t \in Tasks : IR_Configured(t)

\* initialize_realtime: what can go wrong, and the retry
Disconnects ==
    \/ \E t \in Tasks : IR_ConnectFails(t)
    \/ \E t \in Tasks : IR_Drop(t)
    \/ \E t \in Tasks : IR_StreamEnds(t)
    \/ \E t \in Tasks : IR_Retry(t)

\* handle_realtime_event, for the events the remote may send
HandleEvent ==
    \/ \E t \in Tasks, e \in Events : H_LogOnly(t, e)
    \/ \E t \in Tasks, e \in Events : H_AudioDelta(t, e)
    \/ \E t \in Tasks : H_AudioDelta_Add(t)
    \/ \E t \in Tasks, e \in Events : H_TranscriptDelta(t, e)
    \/ \E t \in Tasks, e \in Events : H_TranscriptDone(t, e)
    \/ \E t \in Tasks, e \in Events : H_SpeechStarted(t, e)
    \/ \E t \in Tasks, e \in Events : H_BargeIn_Send(t, e)
    \/ \E t \in Tasks : H_BargeIn_Resume(t)
    \/ \E t \in Tasks, e \in Events : H_BargeIn_Local(t, e)
    \/ \E t \in Tasks, e \in Events : H_SpeechDone(t, e)
    \/ \E t \in Tasks : H_SpeechDone_Create(t)
    \/ \E t \in Tasks : H_SpeechDone_End(t)
    \/ \E t \in Tasks, e \in Events : H_ResponseDone(t, e)
    \/ \E t \in Tasks, e \in Events : H_FatalError(t, e)

\* record_mic_audio
MicTask ==
    \/ \E t \in Mics : Mic_DeviceError(t)
    \/ \E t \in Mics : Mic_Poll(t)
    \/ \E t \in Mics : Mic_Overflow(t)
    \/ \E t \in Mics : Mic_Send(t)

\* cancel_ongoing_response, scheduled by the input thread
CancelJob ==
    \/ \E i \in JobIds : J_Cancel_Crash(i)
    \/ \E i \in JobIds : J_Cancel_Send(i)
    \/ \E i \in JobIds : J_Cancel_Local(i)

\* send_message
SendJob ==
    \/ \E i \in JobIds : J_Send_Cancel(i)
    \/ \E i \in JobIds : J_Send_Item(i)
    \/ \E i \in JobIds : J_Send_Create(i)
    \/ \E i \in JobIds : J_Send_End(i)
    \/ \E i \in JobIds : J_Send_Raises(i)
    \/ \E i \in JobIds : J_Send_Fallback(i)
    \/ \E i \in JobIds : J_Send_Reply(i)
    \/ \E i \in JobIds : J_Send_ChatFails(i)

\* handle_input, F5
SpeechKey ==
    \/ UI_SpeechOn
    \/ UI_SpeechOff
    \/ UI_SpeechOff_Close

----------------------------------------------------------------------------
\* SpecBoot: from construction, while the remote sends no event and the user
\* types nothing: conversations are started and ended, speech mode is turned
\* on and off, connections are attempted, fail, drop and are retried.

NextBoot ==
    \/ \E npc_role \in Roles : UI_Start(npc_role)
    \/ UI_Start_Greet
    \/ UI_End
    \/ UI_End_Close
    \/ SpeechKey
    \/ Connects
    \/ Disconnects
    \/ MicTask
    \/ \E i \in JobIds : J_Cancel_Crash(i)
    \/ \E i \in JobIds : J_Greeting(i)

SpecBoot == Init /\ [][NextBoot]_vars

----------------------------------------------------------------------------
\* SpecVisit: the player walks about, starts conversations and ends them,
\* while connections are made; the remote sends no event.

\* Player.move and move_player_away_from_npc: the caller changes the position
\* it holds, in place, between two calls of the dialogue system. Game3D.run
\* moves the player only while no dialogue is active (lines 1457-1462); a
\* caller such as test.py is not held to that, so the guard is left out.
Move ==
    /\ ui = Idle
    /\ \E pos \in Positions \ { player_pos } : player_pos' = pos
    /\ ev' = NoEv
    /\ UNCHANGED << dsVars, playerVars, loopVars, ui, initial_player_pos,
                    heard, script, thr, budgetVars, ghostVars >>

NextVisit ==
    \/ Move
    \/ \E npc_role \in Roles : UI_Start(npc_role)
    \/ UI_Start_Greet
    \/ UI_End
    \/ UI_End_Close
    \/ Connects
    \/ \E i \in JobIds : J_Cancel_Crash(i)
    \/ \E i \in JobIds : J_Greeting(i)

SpecVisit == Init /\ [][NextVisit]_vars

\* The state start_conversation(npc_role) and the first, successful connect of
\* its initialize_realtime task leave behind: the dialogue is active, the
\* session is configured, the task consumes events, the capture worker polls.
Live(npc_role) ==
    /\ active = TRUE
    /\ input_active = TRUE
    /\ speech_mode = FALSE
    /\ realtime_conn = ConnOf(1, 0)
    /\ realtime_initialized = TRUE
    /\ is_npc_responding = FALSE
    /\ speech_active = FALSE
    /\ last_audio_item_id = None
    /\ acc_items = acc_empty
    /\ npc_message = initial_message(npc_role)
    /\ conversation_history = << Turn("system", system_prompt(npc_role)) >>
    /\ queue = << >>
    /\ playing = FALSE
    /\ stream_on = FALSE
    /\ frame_count = 0
    /\ init = << [ NewInit EXCEPT !.pc = "stream" ] >>
    /\ mic = << NewMic >>
    /\ jobs = << >>
    /\ running = Free
    /\ ui = Idle
    /\ player_pos = DefaultPos
    /\ initial_player_pos = start_position(player_pos)
    /\ heard = {}

\* SpecBoot reaches Live: this state predicate is violated there
NeverLive == ~ \E npc_role \in Roles : Live(npc_role)

----------------------------------------------------------------------------
\* Spec: a conversation in progress on a connection that stays up.  The
\* remote sends events, the user talks, types and switches speech mode, the
\* output stream pulls; sends, the capture device and the fallback request
\* may fail.

InitLive ==
    /\ \E npc_role \in Roles : Live(npc_role)
    /\ script = << >>
    /\ thr = ThrIdle
    /\ ev = NoEv
    /\ nev = 0
    /\ nui = 0
    /\ nfault = 0
    /\ p_in = << >>
    /\ p_out = << >>
    /\ p_clean = TRUE

Next ==
    \/ HandleEvent
    \/ Connects
    \/ MicTask
    \/ CancelJob
    \/ SendJob
    \/ SpeechKey
    \/ \E text \in Texts : UI_Submit(text)
    \/ Callback

Spec == InitLive /\ [][Next]_vars

----------------------------------------------------------------------------
\* SpecRestart: the user speaks to a live conversation, ends it and starts
\* another, while the remote sends the audio and the transcript of its
\* responses.

NextRestart ==
    \/ UI_SpeechOn
    \/ \E t \in Mics : Mic_Poll(t)
    \/ \E t \in Mics : Mic_Send(t)
    \/ UI_End
    \/ UI_End_Close
    \/ \E npc_role \in Roles : UI_Start(npc_role)
    \/ UI_Start_Greet
    \/ Connects
    \/ \E t \in Tasks, e \in Events : H_AudioDelta(t, e)
    \/ \E t \in Tasks : H_AudioDelta_Add(t)
    \/ \E t \in Tasks, e \in Events : H_TranscriptDelta(t, e)
    \/ \E t \in Tasks, e \in Events : H_ResponseDone(t, e)
    \/ \E i \in JobIds : J_Cancel_Crash(i)
    \/ \E i \in JobIds : J_Cancel_Local(i)
    \/ \E i \in JobIds : J_Greeting(i)

SpecRestart == InitLive /\ [][NextRestart]_vars

----------------------------------------------------------------------------
\* One response followed event by event: the service sends the events of a
\* script, in that order, to the task that owns the live connection, and
\* nothing raises.  The user has speech mode on and the microphone streams,
\* which is what makes the service answer; the device pulls nothing.

ScriptLen == 4

AudioDelta(item, delta)     == Event("response.audio.delta", item, delta, None)
TranscriptDelta(item, text) == Event("response.audio_transcript.delta", item, text, None)
TranscriptDone(item)        == Event("response.audio_transcript.done", item, << >>, None)
ResponseDone                == Event("response.done", None, << >>, None)
SpeechStarted               == Event("input_audio_buffer.speech_started", None, << >>, None)

\* the transcript "Hello there", in one delta or in two
HelloThere == << "Hello ", "there" >>
HelloDeltas ==
    { << TranscriptDelta("r1", HelloThere) >>,
      << TranscriptDelta("r1", << "Hello " >>), TranscriptDelta("r1", << "there" >>) >> }

\* two audio deltas of r1, the transcript deltas before, between or after
\* them, then transcript done and response done
ScenarioScripts ==
    UNION { { << AudioDelta("r1", b1), AudioDelta("r1", b2) >> \o tds
                  \o << TranscriptDone("r1"), ResponseDone >>,
              << AudioDelta("r1", b1) >> \o tds \o << AudioDelta("r1", b2) >>
                  \o << TranscriptDone("r1"), ResponseDone >>,
              tds \o << AudioDelta("r1", b1), AudioDelta("r1", b2) >>
                  \o << TranscriptDone("r1"), ResponseDone >> } :
            b1 \in AllDeltas, b2 \in AllDeltas, tds \in HelloDeltas }

ScriptAlphabet ==
    { TranscriptDelta("r1", << "a" >>), TranscriptDelta("r1", << "b" >>),
      TranscriptDelta("r2", << "c" >>), TranscriptDone("r1"), TranscriptDone("r2"),
      AudioDelta("r1", Delta_1_2), ResponseDone, SpeechStarted }

Scripts == ScenarioScripts \cup [ 1..ScriptLen -> ScriptAlphabet ]

InitTurn ==
    /\ \E npc_role \in Roles : Live(npc_role)
    /\ script \in Scripts
    /\ thr = ThrIdle
    /\ ev = NoEv
    /\ nev = 0
    /\ nui = 0
    /\ nfault = MaxFaults
    /\ p_in = << >>
    /\ p_out = << >>
    /\ p_clean = TRUE

\* the event the service sends next, if the script has one left
NextEvent == IF nev < Len(script) THEN { script[nev + 1] } ELSE {}

NextTurn ==
    \/ UI_SpeechOn
    \/ \E t \in Mics  : Mic_Poll(t)
    \/ \E t \in Mics  : Mic_Send(t)
    \/ \E t \in Tasks, e \in NextEvent : H_AudioDelta(t, e)
    \/ \E t \in Tasks : H_AudioDelta_Add(t)
    \/ \E t \in Tasks, e \in NextEvent : H_TranscriptDelta(t, e)
    \/ \E t \in Tasks, e \in NextEvent : H_TranscriptDone(t, e)
    \/ \E t \in Tasks, e \in NextEvent : H_SpeechStarted(t, e)
    \/ \E t \in Tasks, e \in NextEvent : H_BargeIn_Send(t, e)
    \/ \E t \in Tasks : H_BargeIn_Resume(t)
    \/ \E t \in Tasks, e \in NextEvent : H_ResponseDone(t, e)

SpecTurn == InitTurn /\ [][NextTurn]_vars

----------------------------------------------------------------------------
\* SpecRace: AudioPlayerAsync with its three threads followed statement by
\* statement.  The output stream's thread runs callback, the event loop's
\* thread runs add_data (src/app.py:666), the input thread runs stop and
\* reset_frame_count (src/app.py:809-810 and 897).  callback and add_data hold
\* self.lock; reset_frame_count takes no lock, and stop takes it for its last
\* statement only.

MaxCtl == 2

\* the other variables of the model stand still
RaceFrame == UNCHANGED << dsVars, loopVars, ui, posVars, heard, script, budgetVars >>

\* add_data, lines 99-101: the lock is taken and the chunk appended
R_AddLock ==
    /\ thr.add.pc = "idle"
    /\ thr.lock = "free"
    /\ Len(p_in) < MaxFrames
    /\ \E delta \in AllDeltas :
        LET data == b64decode(delta)
        IN  /\ queue' = add_data_queue(queue, data)
            /\ p_in' = Append(p_in, frombuffer_int16(data))
    /\ thr' = [ thr EXCEPT !.lock = "add", !.add.pc = "test" ]
    /\ p_clean' = (p_clean /\ p_out = << >>)
    /\ ev' = NoEv
    /\ UNCHANGED << playing, stream_on, frame_count, p_out >>
    /\ RaceFrame

\* add_data, lines 102-103 and 107: `if not self.playing`, then the first
\* statement of start(); the lock is released when start() is not called
R_AddTest ==
    /\ thr.add.pc = "test"
    /\ IF playing
       THEN /\ thr' = [ thr EXCEPT !.lock = "free", !.add.pc = "idle" ]
            /\ UNCHANGED playing
       ELSE /\ thr' = [ thr EXCEPT !.add.pc = "start" ]
            /\ playing' = TRUE
    /\ ev' = NoEv
    /\ UNCHANGED << queue, stream_on, frame_count, p_in, p_out, p_clean >>
    /\ RaceFrame

\* start(), line 108: stream.start() (a stream already started stays so),
\* then add_data leaves its with block
R_AddStream ==
    /\ thr.add.pc = "start"
    /\ stream_on' = TRUE
    /\ thr' = [ thr EXCEPT !.lock = "free", !.add.pc = "idle" ]
    /\ ev' = NoEv
    /\ UNCHANGED << queue, playing, frame_count, p_in, p_out, p_clean >>
    /\ RaceFrame

\* callback, lines 65-76: the lock, the loop, and the read of
\* self._frame_count that begins `self._frame_count += len(data)`
R_CbBegin ==
    /\ stream_on
    /\ thr.cb.pc = "idle"
    /\ thr.lock = "free"
    /\ Len(p_out) < MaxPulls
    /\ \E frames \in 1..MaxBlock :
        LET r == callback_loop(<< >>, queue, frames)
        IN  /\ queue' = r.queue
            /\ thr' = [ thr EXCEPT !.lock = "cb",
                                   !.cb = [ pc |-> "add", data |-> r.data,
                                            seen |-> frame_count, frames |-> frames,
                                            raced |-> FALSE ] ]
    /\ ev' = NoEv
    /\ UNCHANGED << playing, stream_on, frame_count, p_in, p_out, p_clean >>
    /\ RaceFrame

\* callback, lines 76-82: the sum is stored, the block padded and written
R_CbEnd ==
    /\ thr.cb.pc = "add"
    /\ frame_count' = thr.cb.seen + Len(thr.cb.data)
    /\ p_out' = Append(p_out,
                   [ frames  |-> thr.cb.frames,
                     outdata |-> thr.cb.data \o Zeros(thr.cb.frames - Len(thr.cb.data)) ])
    /\ thr' = [ thr EXCEPT !.lock = "free", !.cb = ThrIdle.cb ]
    /\ ev' = [ kind |-> "pulled", n |-> Len(thr.cb.data), raced |-> thr.cb.raced ]
    /\ UNCHANGED << queue, playing, stream_on, p_in, p_clean >>
    /\ RaceFrame

\* reset_frame_count, lines 84-86, whatever the other threads are doing
R_Reset ==
    /\ thr.ctl.pc = "idle"
    /\ thr.nctl < MaxCtl
    /\ frame_count' = reset_frame_count(frame_count)
    /\ thr' = [ thr EXCEPT !.nctl = @ + 1, !.cb.raced = (@ \/ thr.cb.pc = "add") ]
    /\ p_clean' = FALSE
    /\ ev' = [ kind |-> "reset" ]
    /\ UNCHANGED << queue, playing, stream_on, p_in, p_out >>
    /\ RaceFrame

\* stop, line 112: self.playing = False
R_StopFlag ==
    /\ thr.ctl.pc = "idle"
    /\ thr.nctl < MaxCtl
    /\ playing' = FALSE
    /\ thr' = [ thr EXCEPT !.ctl.pc = "halt" ]
    /\ p_clean' = FALSE
    /\ ev' = NoEv
    /\ UNCHANGED << queue, stream_on, frame_count, p_in, p_out >>
    /\ RaceFrame

\* stop, line 113: self.stream.stop(), which returns once no callback runs
R_StopStream ==
    /\ thr.ctl.pc = "halt"
    /\ thr.cb.pc = "idle"
    /\ stream_on' = FALSE
    /\ thr' = [ thr EXCEPT !.ctl.pc = "clear" ]
    /\ ev' = NoEv
    /\ UNCHANGED << queue, playing, frame_count, p_in, p_out, p_clean >>
    /\ RaceFrame

\* stop, lines 114-115: the queue emptied under the lock; stop returns
R_StopClear ==
    /\ thr.ctl.pc = "clear"
    /\ thr.lock = "free"
    /\ queue' = << >>
    /\ thr' = [ thr EXCEPT !.ctl.pc = "idle", !.nctl = @ + 1 ]
    /\ ev' = [ kind |-> "stopped" ]
    /\ UNCHANGED << playing, stream_on, frame_count, p_in, p_out, p_clean >>
    /\ RaceFrame

NextRace ==
    \/ R_AddLock
    \/ R_AddTest
    \/ R_AddStream
    \/ R_CbBegin
    \/ R_CbEnd
    \/ R_Reset
    \/ R_StopFlag
    \/ R_StopStream
    \/ R_StopClear

SpecRace == Init /\ [][NextRace]_vars

----------------------------------------------------------------------------
\* Properties

\* the handler has just finished a speech_started that found the agent responding
BargeInDone == ev.kind = "handled" /\ ev.barge

Switched == ev.kind = "adopt" /\ ev.switched /\ ev.previous # None

OneItemQueued ==
    \A i, j \in 1..Len(QueuedSamples) :
        ItemOfSample(QueuedSamples[i]) = ItemOfSample(QueuedSamples[j])

C3_AtMostThreeAttempts ==
    /\ \A t \in 1..Len(init) : init[t].attempt + 1 <= max_attempts
    /\ ev.kind = "attempt_failed" =>
           IF init[ev.task].attempt = max_attempts - 1
           THEN ~speech_mode /\ init[ev.task].pc = "done"
           ELSE init[ev.task].pc = "sleep"

\* the third attempt of a run has just failed
C3_Witness ==
    /\ ev.kind = "attempt_failed"
    /\ init[ev.task].attempt = 2
    /\ init[ev.task].pc = "done"
    /\ ~speech_mode

\* C4: every input_audio_buffer.append of the capture worker is sent while
\* speech mode is enabled and the connection is Active.
C4_AppendOnlyWhenEnabled ==
    (ev.kind = "send" /\ ev.cmd = "input_audio_buffer.append") =>
        (ev.mode /\ ev.state = "Active")

\* C5: a barge-in has issued a response.cancel, and an error event of the
\* response_cancel_not_active class changes neither SpeechState nor
\* speech_mode nor the connection reference nor the session-ready flag.
C5_CancelIssuedErrorIgnored ==
    [][ /\ BargeInDone' => ev'.cancel # "none"
        /\ (ev'.kind = "handled" /\ ev'.type = "error"
                /\ ev'.error = "response_cancel_not_active") =>
               /\ SpeechState' = SpeechState
               /\ UNCHANGED << speech_mode, realtime_conn, realtime_initialized >>
      ]_vars

\* C7: the drop of a connection that was being streamed disables speech mode
\* and ends the run of initialize_realtime: no further attempt follows.
C7_NoReconnectAfterDrop ==
    (ev.kind = "attempt_failed" /\ ev.dropped) =>
        (~speech_mode /\ init[ev.task].pc = "done")

\* task t is inside handle_realtime_event
InHandler(t) == init[t].pc \in { "h_add", "h_cancel", "h_commit", "h_create" }

\* C8: at no point are two invocations of handle_realtime_event in progress.
C8_OneHandlerAtATime ==
    Cardinality({ t \in 1..Len(init) : InHandler(t) }) <= 1

\* C9: the agent responds only while an item is active, and no item is active
\* when SpeechState is Idle.
C9_StateAgreesWithItem ==
    /\ is_npc_responding => last_audio_item_id # None
    /\ SpeechState = "Idle" => last_audio_item_id = None

\* C10: no command is handed to a connection while ConnectionState is not
\* Active.
C10_SendOnlyWhenActive ==
    ev.kind = "send" => ev.state = "Active"

\* the handler has just finished an error event of another class than
\* response_cancel_not_active
FatalErrorDone ==
    /\ ev.kind = "handled"
    /\ ev.type = "error"
    /\ ev.error # "response_cancel_not_active"

\* C11: once an error event that is not of the response_cancel_not_active
\* class has been handled, speech mode is off, the connection the event came
\* from is closed (ConnectionState Disconnected, session flag cleared, the
\* connection itself no longer open), no exception left the handler, and a
\* typed text would take the fallback path of send_message.
C11_FatalErrorCloses ==
    FatalErrorDone =>
        /\ ~speech_mode
        /\ ConnectionState = "Disconnected"
        /\ ~realtime_initialized
        /\ ~ev.exc
        /\ ~realtime_path
        /\ ~ConnOpen(ConnOf(ev.task, init[ev.task].attempt))

\* the handler has just finished a speech_done event
SpeechDoneOver == ev.kind = "handled" /\ ev.type = "input_audio_buffer.speech_done"

\* C12: a speech_done event marks the user as no longer speaking and issues
\* input_audio_buffer.commit, then response.create, once each: the commit goes
\* out with the flag cleared, the create only from a handler whose commit has
\* returned, and - where the environment injects no failure - no speech_done
\* ends in the except clause of line 706 with a command left unsent.
C12_SpeechDoneCommitsThenCreates ==
    /\ (ev.kind = "send" /\ ev.cmd = "input_audio_buffer.commit") =>
           (~speech_active /\ \E t \in 1..Len(init) : init[t].pc = "h_commit")
    /\ (SpeechDoneOver /\ nfault = 0) => ~ev.exc

\* the turn log starts with the system turn and holds no other system turn
SystemTurnFirst ==
    /\ conversation_history # << >>
    /\ \E npc_role \in Roles :
           conversation_history[1] = Turn("system", system_prompt(npc_role))
    /\ \A k \in 2..Len(conversation_history) :
           conversation_history[k].role \in { "user", "assistant" }

\* C20: after a start, the turn log changes only by one turn appended at its
\* end; its first element is the system turn set at start and stays as it
\* is, and no later turn has role system.
C20_TurnLogAppendOnly ==
    /\ []SystemTurnFirst
    /\ [][ \/ conversation_history' = conversation_history
           \/ /\ Len(conversation_history') = Len(conversation_history) + 1
              /\ SubSeq(conversation_history', 1, Len(conversation_history))
                     = conversation_history
       ]_vars

\* the log has grown by a typed turn, a spoken turn and an answer
C20_Witness ==
    /\ Len(conversation_history) >= 4
    /\ \E k \in 2..Len(conversation_history) :
           conversation_history[k] = Turn("user", SpeechPlaceholder)
    /\ \E k \in 2..Len(conversation_history) :
           conversation_history[k].role = "assistant"
    /\ \E k \in 2..Len(conversation_history), text \in Texts :
           conversation_history[k] = Turn("user", text)

\* every handler has returned and at least one event of the script was handled
Settled == nev >= 1 /\ nev <= Len(script) /\ \A t \in Tasks : init[t].pc = "stream"

\* the event handled last
LastEvent == script[nev]

\* no earlier event of the script carried the item of the last one
NewItem == \A j \in 1..(nev - 1) : script[j].item_id # LastEvent.item_id

\* C13: the first audio delta or the first transcript delta of an assistant
\* item leaves the speech state at AgentResponding, whatever it was before.
C13_FirstDeltaStartsResponding ==
    ( /\ Settled
      /\ LastEvent.type \in { "response.audio.delta", "response.audio_transcript.delta" }
      /\ NewItem )
        => SpeechState = "AgentResponding"

\* C14: the speech state leaves AgentResponding only in the handler of a
\* response.done event or in a cancellation (here the one of a barge-in); the
\* handler of a transcript done event does not take it out of AgentResponding.
C14_RespondingEndsOnResponseDone ==
    [][ (is_npc_responding /\ ~is_npc_responding') =>
            \/ /\ nev' = nev + 1
               /\ script[nev'].type = "response.done"
            \/ \E t \in Tasks : init[t].pc = "h_cancel" /\ init'[t].pc = "stream"
      ]_vars

\* the audio deltas of the script, in the order of their arrival
AudioDeltasSent == SelectSeq(script, LAMBDA e : e.type = "response.audio.delta")

\* the script is one of the scenario and all its events have been handled
ScenarioOver == script \in ScenarioScripts /\ Settled /\ nev = Len(script)

\* C15: with no pull in between, after audio-delta(r1, b1), audio-delta(r1, b2),
\* the transcript deltas that make "Hello there" for r1, transcript-done(r1)
\* and response-done, the turn log holds one turn more than at the start, an
\* assistant turn with content "Hello there", and the playback queue holds the
\* decoded b1, then the decoded b2, and nothing else.
C15_ScenarioOneTurnTwoChunks ==
    ScenarioOver =>
        /\ Len(conversation_history) = 2
        /\ conversation_history[1].role = "system"
        /\ conversation_history[2] = Turn("assistant", HelloThere)
        /\ queue = << frombuffer_int16(b64decode(AudioDeltasSent[1].delta)),
                      frombuffer_int16(b64decode(AudioDeltasSent[2].delta)) >>

\* the scenario is over with b1 carrying the samples 1, 2 and b2 the sample -1
C15_Witness ==
    /\ ScenarioOver
    /\ AudioDeltasSent = << AudioDelta("r1", Delta_1_2), AudioDelta("r1", Delta_m1) >>
    /\ queue = << << 1, 2 >>, << -1 >> >>
    /\ conversation_history[Len(conversation_history)] = Turn("assistant", HelloThere)

\* the transcript deltas of an item among the first k events of the script,
\* concatenated in the order of their arrival, from the last time the
\* accumulator was emptied (speech_started) on
RECURSIVE Spoken(_, _)
Spoken(item, k) ==
    IF k = 0 THEN << >>
    ELSE IF script[k].type = "input_audio_buffer.speech_started" THEN << >>
    ELSE IF script[k].type = "response.audio_transcript.delta" /\ script[k].item_id = item
         THEN Spoken(item, k - 1) \o script[k].delta
         ELSE Spoken(item, k - 1)

\* C16: the text finalized for an item on its transcript done event - the
\* message shown and the content of the assistant turn appended - is the
\* concatenation, in arrival order, of the deltas received for that item
\* since its entry was created; deltas of other items leave it untouched.
C16_TranscriptInOrderPerItem ==
    (Settled /\ LastEvent.type = "response.audio_transcript.done") =>
        /\ npc_message = Spoken(LastEvent.item_id, nev)
        /\ conversation_history[Len(conversation_history)]
               = Turn("assistant", Spoken(LastEvent.item_id, nev))

\* r1 was finalized as "a" then "b", a delta of r2 having come in between
C16_Witness ==
    /\ Settled
    /\ LastEvent = TranscriptDone("r1")
    /\ script[2] = TranscriptDelta("r2", << "c" >>)
    /\ npc_message = << "a", "b" >>
    /\ acc_get(acc_items, "r2") = << "c" >>

\* C17: once a transcript done event for an item has been handled, acc_items
\* holds no entry for that item.
C17_FinalizeClearsEntry ==
    (Settled /\ LastEvent.type = "response.audio_transcript.done") =>
        LastEvent.item_id \notin DOMAIN acc_items

\* C18: reset is atomic with respect to a pull: when a reset ran while a
\* callback was inside its with block, the counter that the callback leaves
\* is the one of a serial order of the two - n, the samples of that pull
\* (reset, then pull), or 0 (pull, then reset).  An increment begun before
\* the reset does not bring the count of before the reset back.
C18_ResetAtomicWithPull ==
    (ev.kind = "pulled" /\ ev.raced) => frame_count \in { 0, ev.n }

\* C19: when stop returns and no add_data is under way, the queue is empty,
\* the playing flag is false and the output stream is stopped.
C19_StopHaltsAndClears ==
    (ev.kind = "stopped" /\ thr.add.pc = "idle") =>
        /\ queue = << >>
        /\ ~playing
        /\ ~stream_on

\* C21: a send_message that starts while speech mode is off or no configured
\* connection exists sends nothing on the streaming connection: its one step
\* is the request that carries the whole turn log, in order; and when that
\* request returns a reply, the step appends exactly one assistant turn with
\* the reply and makes the reply the caption.
C21_TextFallback ==
    [][ \A i \in 1..Len(jobs) :
          ( /\ jobs[i].kind = "send_message"
            /\ jobs' # jobs
            /\ Len(jobs') <= Len(jobs)
            /\ Len(jobs') = Len(jobs) => jobs'[i] # jobs[i]
            /\ Len(jobs') < Len(jobs) => jobs' = Remove(jobs, i) )
          => /\ ( jobs[i].pc = "new" /\ (~speech_mode \/ ConnectionState # "Active") )
                 => /\ Len(jobs') = Len(jobs)
                    /\ jobs'[i].pc = "m_chat"
                    /\ ev'.kind = "request"
                    /\ ev'.messages = conversation_history
                    /\ conversation_history' = conversation_history
             /\ ( jobs[i].pc = "m_chat" /\ nfault' = nfault )
                 => /\ conversation_history'
                           = Append(conversation_history, Turn("assistant", Reply))
                    /\ npc_message' = Reply
      ]_vars

\* a typed message was answered by the fallback with speech mode off
C21_Witness ==
    /\ ~speech_mode
    /\ Len(conversation_history) >= 3
    /\ \E text \in Texts :
           conversation_history[Len(conversation_history) - 1] = Turn("user", text)
    /\ conversation_history[Len(conversation_history)] = Turn("assistant", Reply)
    /\ npc_message = Reply

\* C22: when the fallback request raises, the step that ends send_message
\* makes the fixed apology the caption, the coroutine returns (nothing is
\* raised out of it), and the turn log is what it was before, turn by turn.
C22_FallbackFailureApologizes ==
    [][ \A i \in 1..Len(jobs) :
          ( /\ jobs[i].kind = "send_message"
            /\ jobs[i].pc = "m_chat"
            /\ nfault' # nfault
            /\ jobs' = Remove(jobs, i) )
          => /\ npc_message' = Apology
             /\ conversation_history' = conversation_history
             /\ running' = running
      ]_vars

\* the one key pressed was RETURN, the fallback request failed, and the
\* apology is shown under a log that ends with the user's turn
C22_Witness ==
    /\ nui = 1
    /\ nfault = 1
    /\ jobs = << >>
    /\ npc_message = Apology
    /\ \E text \in Texts :
           conversation_history[Len(conversation_history)] = Turn("user", text)

\* C23: the session is marked ready only once the remote's acknowledgement
\* (session.updated) has been received, and until then nothing but the
\* session configuration is sent: while no event at all has been handled,
\* realtime_initialized is false and no command goes out.
C23_ReadyOnlyAfterAck ==
    nev = 0 => (~realtime_initialized /\ ev.kind # "send")

\* C24: an overflow leaves the capture worker in its loop and speech mode as
\* it was; a failure of the worker turns speech mode off and ends the loop;
\* and a worker that has ended holds no open input stream.
C24_CaptureWorkerExits ==
    /\ [](\A t \in Mics : mic[t].pc = "done" => mic[t].stream # "open")
    /\ [][ /\ ev'.kind = "overflow" =>
                 /\ mic'[ev'.task].pc = "poll"
                 /\ speech_mode' = speech_mode
           /\ ev'.kind = "mic_failed" =>
                 /\ mic'[ev'.task].pc = "done"
                 /\ ~speech_mode'
      ]_vars

\* a worker whose stream was open has failed: it is over, its stream closed,
\* speech mode off
C24_Witness ==
    /\ ev.kind = "mic_failed"
    /\ mic[ev.task] = [ pc |-> "done", stream |-> "closed" ]
    /\ ~speech_mode

\* C25: the close of Shift+Q (lines 877-881), of F5 off (lines 899-902) and
\* of a restart (lines 814-818) leaves the connection state Disconnected and
\* the session flag cleared; where the state was Disconnected already, it
\* changes neither the reference nor the flag.
C25_CloseIdempotent ==
    [][ ( \/ ui.pc = "end2" /\ ui' = Idle
          \/ ui.pc = "off2" /\ ui' = Idle
          \/ ui = Idle /\ ui'.pc = "start2" )
        => /\ realtime_conn' = NoConn
           /\ ~realtime_initialized'
           /\ realtime_conn = NoConn =>
                  UNCHANGED << realtime_conn, realtime_initialized >>
      ]_vars

\* C28: F5 flips speech_mode.  Turning it on launches a connect procedure
\* and a capture worker when no configured connection exists, and neither
\* when one exists.  Turning it off empties the playback queue, clears the
\* user-speaking flag and, by the end of the command, has closed the
\* connection that was referenced.
C28_ToggleSpeechMode ==
    [][ /\ (~speech_mode /\ speech_mode') =>
              IF realtime_conn = NoConn \/ ~realtime_initialized
              THEN /\ Len(init') = Len(init) + 1
                   /\ Len(mic') = Len(mic) + 1
              ELSE init' = init /\ mic' = mic
        /\ (ui = Idle /\ ui'.pc = "off2") =>
              /\ speech_mode /\ ~speech_mode'
              /\ queue' = << >>
              /\ ~speech_active'
        /\ (ui.pc = "off2" /\ ui' = Idle) =>
              /\ realtime_conn' = NoConn
              /\ \A c \in { realtime_conn } : c # NoConn => ~(ConnOpen(c))'
      ]_vars

\* C29: at any time at most one initialize_realtime task and at most one
\* record_mic_audio task are alive.
C29_OneStreamTaskOneWorker ==
    /\ Cardinality({ t \in 1..Len(init) : init[t].pc # "done" }) <= 1
    /\ Cardinality({ t \in 1..Len(mic) : mic[t].pc # "done" }) <= 1

\* C30: when an audio delta of item X was followed by a speech_started (a
\* barge-in, which cancels the response of X) and then by another audio delta
\* of X, that late delta is not enqueued and does not bring the speech state
\* back to AgentResponding.
C30_NoStaleAudioAfterBargeIn ==
    ( /\ Settled
      /\ nev >= 3
      /\ script[nev - 2].type = "response.audio.delta"
      /\ script[nev - 1].type = "input_audio_buffer.speech_started"
      /\ LastEvent.type = "response.audio.delta"
      /\ LastEvent.item_id = script[nev - 2].item_id )
        => /\ queue = << >>
           /\ SpeechState # "AgentResponding"

C26_StartResets ==
    /\ [](Len(init) = 0 => (~active /\ npc_message = << >> /\ ~speech_mode))
    /\ [][ (ui.pc = "start2" /\ ui' = Idle) =>
              /\ active'
              /\ npc_message' = initial_message(ui.role)
              /\ conversation_history' = << Turn("system", system_prompt(ui.role)) >>
              /\ queue' = << >>
              /\ last_audio_item_id' = None
              /\ acc_items' = acc_empty
         ]_vars

\* C31: when the cancel_ongoing_response that Shift+Q scheduled has run, the
\* playback queue is empty, playback is stopped and SpeechState is Idle,
\* whether or not is_npc_responding was still true when it ran.
C31_EndStopsPlayback ==
    [][ (\E i \in 1..Len(jobs) :
            /\ jobs[i].kind = "cancel"
            /\ ~active
            /\ jobs' = Remove(jobs, i))
          => /\ queue' = << >>
             /\ ~playing'
             /\ SpeechState' = "Idle"
      ]_vars

\* C32: one typed submit sends at most one response.cancel: send_message
\* does not send its cancel while the cancel_ongoing_response scheduled by
\* the same RETURN has sent one and is awaiting it.
C32_OneCancelPerSubmit ==
    [][ \A i \in 1..Len(jobs) :
          ( /\ Len(jobs') = Len(jobs)
            /\ jobs[i].kind = "send_message"
            /\ jobs[i].pc = "new"
            /\ jobs'[i].pc = "m_cancel" )
            => ~ \E j \in 1..(i - 1) :
                    jobs[j].kind = "cancel" /\ jobs[j].pc = "await_cancel"
      ]_vars

\* C33: a typed submit served by the realtime path.  Whatever send_message
\* sends, the typed turn is in the history by then; it sends
\* conversation.item.create only when the cancel_ongoing_response scheduled
\* before it has finished (cancel sent, local reset done); it sends
\* response.create only after conversation.item.create; and that local reset
\* does not run once conversation.item.create has been sent.
C33_SubmitOrder ==
    [][ /\ \A i \in 1..Len(jobs) :
              ( /\ Len(jobs') = Len(jobs)
                /\ jobs[i].kind = "send_message"
                /\ jobs'[i].pc # jobs[i].pc )
                => /\ \E k \in 1..Len(conversation_history) :
                         conversation_history[k] = Turn("user", jobs[i].text)
                   /\ jobs'[i].pc = "m_item" =>
                         ~ \E j \in 1..(i - 1) : jobs[j].kind = "cancel"
                   /\ jobs'[i].pc = "m_create" => jobs[i].pc = "m_item"
        /\ \A j \in 1..Len(jobs) :
              ( /\ jobs[j].kind = "cancel"
                /\ jobs[j].pc = "await_cancel"
                /\ jobs' = Remove(jobs, j) )
                => ~ \E i \in (j + 1)..Len(jobs) :
                        /\ jobs[i].kind = "send_message"
                        /\ jobs[i].pc \in { "m_item", "m_create" }
      ]_vars

\* C34: in every reachable state the session flag is set only while
\* realtime_conn refers to a connection.
C34_ReadyImpliesConnected == realtime_initialized => realtime_conn # NoConn

\* C35: once speech mode is off and no connection is referenced, which is
\* what a fatal error event and Shift+Q leave, an event that the dropped
\* session still delivers changes neither the playback queue nor the history
\* nor the caption.
C35_OldSessionIsInert ==
    [][ ( /\ ~speech_mode
          /\ realtime_conn = NoConn
          /\ \/ nev' # nev
             \/ \E t \in 1..Len(init) : init[t].pc = "h_add" /\ init'[t].pc = "stream" )
          => UNCHANGED << queue, conversation_history, npc_message >>
      ]_vars

\* C36: whenever neither add_data nor stop is in progress, playing is true
\* exactly when the output stream is started, and the stream is started
\* whenever the queue is not empty.
C36_PlayingAgreesWithStream ==
    (thr.add.pc = "idle" /\ thr.ctl.pc = "idle")
        => /\ playing <=> stream_on
           /\ queue # << >> => stream_on

\* the samples written to the device that came from the queue: the audio the
\* model enqueues has no zero sample, so the zeros are the padding
NonPadding == SelectSeq(Emitted, LAMBDA x : x # 0)

\* C37: as long as neither stop nor reset_frame_count was called, between two
\* callbacks the samples emitted so far, padding left out, followed by the
\* samples still queued are the samples enqueued so far, in order, and the
\* frame counter is the number of samples emitted that are not padding.
C37_SampleConservation ==
    (thr.nctl = 0 /\ thr.ctl.pc = "idle" /\ thr.cb.pc = "idle")
        => /\ NonPadding \o QueuedSamples = Enqueued
           /\ frame_count = Len(NonPadding)

\* two chunks were enqueued, the second after a pull, and a pull has split
\* the chunk 1, 2: sample 1 is emitted, sample 2 is back at the front
C37_Witness ==
    /\ thr.nctl = 0 /\ thr.ctl.pc = "idle" /\ thr.cb.pc = "idle"
    /\ Len(p_in) = 2
    /\ NonPadding = << 1 >>
    /\ queue = << << 2 >>, << 3 >> >>

\* C38: when handle_realtime_event has caught an exception raised while it
\* handled an event, the agent is not marked responding, and the task that
\* handled the event is again waiting for the next event of the same
\* connection, in the same attempt: the except clause of initialize_realtime
\* has not run (the reference and the session flag are as they were).
C38_HandlerContainsException ==
    [][ (ev'.kind = "handled" /\ ev'.exc) =>
            /\ SpeechState' # "AgentResponding"
            /\ init'[ev'.task].pc = "stream"
            /\ init'[ev'.task].attempt = init[ev'.task].attempt
            /\ Len(init') = Len(init)
            /\ UNCHANGED << realtime_conn, realtime_initialized, speech_mode >>
      ]_vars

\* a fatal error event has dropped the reference, then speech_done made the
\* handler commit through None, and the exception was caught
C38_Witness ==
    /\ ev.kind = "handled" /\ ev.exc
    /\ ev.type = "input_audio_buffer.speech_done"
    /\ realtime_conn = NoConn
    /\ nfault = 0
    /\ init[ev.task].pc = "stream"

\* C39: whenever a task of initialize_realtime goes on to its next attempt,
\* the time it waited before that attempt is not shorter than the time it
\* waited before the attempt that has just ended.
C39_DelayNonDecreasing ==
    [][ \A t \in 1..Len(init) :
            init'[t].attempt = init[t].attempt + 1
                => init'[t].slept >= init[t].slept
      ]_vars

====
